---- MODULE Spec2Model ----
(***************************************************************************)
(* Authentication core of iris-copilot: the token service, the login and  *)
(* refresh use case, the registration use case and the in-memory user     *)
(* directory.  Text values (emails, user names, passwords) are sequences  *)
(* of one-character strings, so that lower-casing, stripping, length and  *)
(* character-class checks are computed the way the Python code computes   *)
(* them.  Times are whole seconds since an arbitrary epoch.               *)
(***************************************************************************)
EXTENDS Integers, Sequences, FiniteSets, TLC

VARIABLES
    now,                \* datetime.utcnow(), in seconds
    users_by_id,        \* InMemoryUserRepository._users_by_id
    users_by_email,     \* InMemoryUserRepository._users_by_email
    users_by_username,  \* InMemoryUserRepository._users_by_username
    attempts,           \* the login-attempts guard's failure counter per email
    guardOn,            \* LoginUseCase.login_attempts_service is not None
    kept,               \* the token a client kept from an earlier response, or None
    aggregate,          \* the UserAggregate an aggregate caller works on, or None
    in_flight,          \* the LoginUseCase.execute calls in progress, each at its await
    history,            \* the refresh tokens used with success and the token ids revoked so far
    last                \* what the last operation was given and what it returned or raised

vars == <<now, users_by_id, users_by_email, users_by_username, attempts, guardOn, kept,
          aggregate, in_flight, history, last>>

(***************************************************************************)
(* Bounds of the model                                                     *)
(***************************************************************************)
\* failures after which the login-attempts guard blocks an email
AttemptsLimit == 2

(***************************************************************************)
(* Program constants                                                       *)
(***************************************************************************)
ACCESS_TOKEN_EXPIRE_MINUTES == 30
REFRESH_TOKEN_EXPIRE_DAYS == 7
MIN_LENGTH == 8
MAX_LENGTH == 128

\* None, for values that are records otherwise
Null == [none |-> TRUE]
\* None, for values that are times otherwise
NoTime == -1

(***************************************************************************)
(* Characters and text                                                     *)
(***************************************************************************)
UpperSeq == <<"A","B","C","D","E","F","G","H","I","J","K","L","M",
              "N","O","P","Q","R","S","T","U","V","W","X","Y","Z">>
LowerSeq == <<"a","b","c","d","e","f","g","h","i","j","k","l","m",
              "n","o","p","q","r","s","t","u","v","w","x","y","z">>
DigitSeq == <<"0","1","2","3","4","5","6","7","8","9">>

Range(f) == {f[i] : i \in DOMAIN f}

UpperChars == Range(UpperSeq)
LowerChars == Range(LowerSeq)
DigitChars == Range(DigitSeq)
Whitespace == {" "}

\* str.lower() on one character
LowerChar(c) ==
    IF c \in UpperChars
    THEN LowerSeq[CHOOSE i \in DOMAIN UpperSeq : UpperSeq[i] = c]
    ELSE c

\* str.lower()
Lower(s) == [i \in DOMAIN s |-> LowerChar(s[i])]

\* str.strip(): drop leading and trailing whitespace
Strip(s) ==
    IF \A i \in DOMAIN s : s[i] \in Whitespace
    THEN <<>>
    ELSE LET first == CHOOSE i \in DOMAIN s :
                          s[i] \notin Whitespace /\ \A j \in 1..(i-1) : s[j] \in Whitespace
             lastc == CHOOSE i \in DOMAIN s :
                          s[i] \notin Whitespace /\ \A j \in (i+1)..Len(s) : s[j] \in Whitespace
         IN  SubSeq(s, first, lastc)

\* w in s, for strings
Contains(s, w) ==
    \E i \in 1..(Len(s) - Len(w) + 1) : SubSeq(s, i, i + Len(w) - 1) = w

\* s.replace(c, "")
RECURSIVE Remove(_, _)
Remove(s, c) ==
    IF s = <<>> THEN <<>>
    ELSE IF Head(s) = c THEN Remove(Tail(s), c)
    ELSE <<Head(s)>> \o Remove(Tail(s), c)

(***************************************************************************)
(* Error messages: the text of an exception, as its fixed part, the fixed  *)
(* prefix an outer handler put before it, and the interpolated value.      *)
(***************************************************************************)
Msg(text, arg) == [prefix |-> "", text |-> text, arg |-> arg]
Wrap(prefix, m) == [prefix |-> prefix, text |-> m.text, arg |-> m.arg]

(***************************************************************************)
(* Email value object                                                      *)
(***************************************************************************)
EmailLocalChars == UpperChars \cup LowerChars \cup DigitChars \cup {".", "_", "%", "+", "-"}
EmailDomainChars == UpperChars \cup LowerChars \cup DigitChars \cup {".", "-"}
EmailTldChars == UpperChars \cup LowerChars

\* re.match(r'^[a-zA-Z0-9._%+-]+@[a-zA-Z0-9.-]+\.[a-zA-Z]{2,}$', value)
Email_is_valid(v) ==
    \E a \in 2..Len(v) : \E d \in (a+2)..(Len(v)-2) :
        /\ v[a] = "@"
        /\ \A i \in 1..(a-1) : v[i] \in EmailLocalChars
        /\ \A i \in (a+1)..(d-1) : v[i] \in EmailDomainChars
        /\ v[d] = "."
        /\ \A i \in (d+1)..Len(v) : v[i] \in EmailTldChars

\* Email(value): the normalised value, or the ValueError raised
Email(raw) ==
    LET v == Strip(Lower(raw)) IN
    IF raw = <<>> THEN [ok |-> FALSE, err |-> Msg("Email cannot be empty", <<>>)]
    ELSE IF ~Email_is_valid(v)
    THEN [ok |-> FALSE, err |-> Msg("Invalid email format: {value}", v)]
    ELSE IF Len(v) > 255
    THEN [ok |-> FALSE, err |-> Msg("Email cannot be longer than 255 characters", <<>>)]
    ELSE [ok |-> TRUE, value |-> v]

(***************************************************************************)
(* Password value object                                                   *)
(***************************************************************************)
\* SPECIAL_CHARS = "!@#$%^&*()_+-=[]{}|;:,.<>?"
SPECIAL_CHARS == {"!","@","#","$","%","^","&","*","(",")","_","+","-","=",
                  "[","]","{","}","|",";",":",",",".","<",">","?"}

\* 'password', 'qwerty', 'admin', 'letmein', 'welcome', 'monkey', 'dragon', 'master', 'superman'
CommonWeak == {
    <<"p","a","s","s","w","o","r","d">>, <<"q","w","e","r","t","y">>,
    <<"a","d","m","i","n">>, <<"l","e","t","m","e","i","n">>,
    <<"w","e","l","c","o","m","e">>, <<"m","o","n","k","e","y">>,
    <<"d","r","a","g","o","n">>, <<"m","a","s","t","e","r">>,
    <<"s","u","p","e","r","m","a","n">> }

\* (012|123|...|789|890)
SequentialDigits ==
    {SubSeq(DigitSeq, k, k + 2) : k \in 1..8} \cup {<<"8","9","0">>}
\* (abc|bcd|...|xyz)
SequentialLetters == {SubSeq(LowerSeq, k, k + 2) : k \in 1..24}

Password_has_weak_patterns(value) ==
    LET lower_value == Lower(value) IN
    \/ \E i \in 1..(Len(lower_value) - 2) :
           lower_value[i] = lower_value[i+1] /\ lower_value[i+1] = lower_value[i+2]
    \/ \E w \in SequentialDigits : Contains(lower_value, w)
    \/ \E w \in SequentialLetters : Contains(lower_value, w)
    \/ \E w \in CommonWeak : Contains(lower_value, w)

\* the list of errors, in the order the checks are made
Password_validate(value) ==
    (IF Len(value) < MIN_LENGTH THEN <<"Must be at least 8 characters long">> ELSE <<>>)
    \o (IF Len(value) > MAX_LENGTH THEN <<"Cannot be longer than 128 characters">> ELSE <<>>)
    \o (IF ~\E i \in DOMAIN value : value[i] \in UpperChars
        THEN <<"Must contain at least one uppercase letter">> ELSE <<>>)
    \o (IF ~\E i \in DOMAIN value : value[i] \in LowerChars
        THEN <<"Must contain at least one lowercase letter">> ELSE <<>>)
    \o (IF ~\E i \in DOMAIN value : value[i] \in DigitChars
        THEN <<"Must contain at least one digit">> ELSE <<>>)
    \o (IF ~\E i \in DOMAIN value : value[i] \in SPECIAL_CHARS
        THEN <<"Must contain at least one special character">> ELSE <<>>)
    \o (IF Password_has_weak_patterns(value)
        THEN <<"Password contains weak patterns">> ELSE <<>>)

\* Password(value): the value, or the ValueError raised
Password(value) ==
    IF value = <<>> THEN [ok |-> FALSE, err |-> Msg("Password cannot be empty", <<>>)]
    ELSE IF Password_validate(value) # <<>>
    THEN [ok |-> FALSE, err |-> Msg("Password validation failed: {errors}", Password_validate(value))]
    ELSE [ok |-> TRUE, value |-> value]

\* Password.calculate_strength(): unique_chars >= len * 0.7 is 10 * unique >= 7 * len
Password_calculate_strength(value) ==
    LET score ==
            (IF Len(value) >= 8 THEN 1 ELSE 0) + (IF Len(value) >= 12 THEN 1 ELSE 0)
          + (IF Len(value) >= 16 THEN 1 ELSE 0)
          + (IF \E i \in DOMAIN value : value[i] \in UpperChars THEN 1 ELSE 0)
          + (IF \E i \in DOMAIN value : value[i] \in LowerChars THEN 1 ELSE 0)
          + (IF \E i \in DOMAIN value : value[i] \in DigitChars THEN 1 ELSE 0)
          + (IF \E i \in DOMAIN value : value[i] \in SPECIAL_CHARS THEN 1 ELSE 0)
          + (IF 10 * Cardinality(Range(value)) >= 7 * Len(value) THEN 1 ELSE 0)
    IN  IF score <= 3 THEN "weak"
        ELSE IF score <= 5 THEN "medium"
        ELSE IF score <= 7 THEN "strong"
        ELSE "very_strong"

(***************************************************************************)
(* Credential verifier (PasswordService over passlib's bcrypt context)     *)
(***************************************************************************)
\* pwd_context.hash(plain_password): a well-formed hash of the password
PasswordService_hash(plain_password) == [wellformed |-> TRUE, of |-> plain_password]

\* pwd_context.verify(...), with every exception turned into False
PasswordService_verify(plain_password, hashed_password) ==
    IF ~hashed_password.wellformed THEN FALSE
    ELSE hashed_password.of = plain_password

(***************************************************************************)
(* Dictionaries                                                            *)
(***************************************************************************)
EmptyDict == [k \in {} |-> Null]

\* d.get(k, default)
Get(d, k, default) == IF k \in DOMAIN d THEN d[k] ELSE default

\* d.update(e): the keys of e replace those of d
Update(d, e) == [k \in DOMAIN d \cup DOMAIN e |-> IF k \in DOMAIN e THEN e[k] ELSE d[k]]

(***************************************************************************)
(* JSON Web Tokens (python-jose), as far as TokenService relies on them:   *)
(* a token is its claims and the key that signed it; text that is no JWT   *)
(* has kind "garbage", a value that is no text has kind "nonstring".       *)
(***************************************************************************)
SECRET_KEY == "secret_key"
OtherKey == "other_key"

jwt_encode(claims, key) == [kind |-> "jwt", claims |-> claims, sig |-> key]

GarbageToken == [kind |-> "garbage", claims |-> EmptyDict, sig |-> ""]
NonStringToken == [kind |-> "nonstring", claims |-> EmptyDict, sig |-> ""]

\* jwt.decode(token, key, algorithms): the payload, or the exception raised.
\* The signature is checked first, then exp: a token is expired when exp < now.
jwt_decode(token, key, t) ==
    IF token.kind = "nonstring" THEN [ok |-> FALSE, exc |-> "Exception"]
    ELSE IF token.kind = "garbage" THEN [ok |-> FALSE, exc |-> "JWTError"]
    ELSE IF token.sig # key THEN [ok |-> FALSE, exc |-> "JWTError"]
    ELSE IF "exp" \in DOMAIN token.claims /\ token.claims["exp"] < t
    THEN [ok |-> FALSE, exc |-> "ExpiredSignatureError"]
    ELSE [ok |-> TRUE, payload |-> token.claims]

(***************************************************************************)
(* TokenService                                                            *)
(***************************************************************************)
AccessSeconds == ACCESS_TOKEN_EXPIRE_MINUTES * 60
RefreshSeconds == REFRESH_TOKEN_EXPIRE_DAYS * 86400

\* secrets.token_urlsafe(16): some random identifier
JtiIds == {"jti1", "jti2"}

\* generate_tokens as it would be if it issued a refresh token whatever
\* remember_me is
generate_tokens_always_refresh(user_id, email, role, permissions, remember_me, additional_claims, t, jti_a, jti_r) ==
    LET access_token_data ==
            [sub |-> user_id, email |-> email, role |-> role, permissions |-> permissions,
             type |-> "access", exp |-> t + AccessSeconds, iat |-> t, jti |-> jti_a]
        refresh_token_data ==
            [sub |-> user_id, email |-> email, type |-> "refresh",
             exp |-> t + RefreshSeconds, iat |-> t, jti |-> jti_r]
    IN  [access_token |-> jwt_encode(access_token_data, SECRET_KEY), token_type |-> "bearer",
         expires_at |-> access_token_data["exp"],
         expires_in |-> ACCESS_TOKEN_EXPIRE_MINUTES * 60,
         refresh_token |-> jwt_encode(refresh_token_data, SECRET_KEY),
         refresh_expires_at |-> refresh_token_data["exp"]]

\* TokenService.generate_tokens at time t; jti_a and jti_r are the random token ids
generate_tokens(user_id, email, role, permissions, remember_me, additional_claims, t, jti_a, jti_r) ==
    LET access_token_data0 ==
            [sub |-> user_id, email |-> email, role |-> role, permissions |-> permissions,
             type |-> "access", exp |-> t + AccessSeconds, iat |-> t, jti |-> jti_a]
        access_token_data ==
            IF additional_claims # Null /\ additional_claims # EmptyDict
            THEN Update(access_token_data0, additional_claims)
            ELSE access_token_data0
        access_token == jwt_encode(access_token_data, SECRET_KEY)
        result ==
            [access_token |-> access_token, token_type |-> "bearer",
             expires_at |-> access_token_data["exp"],
             expires_in |-> ACCESS_TOKEN_EXPIRE_MINUTES * 60]
        refresh_token_data ==
            [sub |-> user_id, email |-> email, type |-> "refresh",
             exp |-> t + RefreshSeconds, iat |-> t, jti |-> jti_r]
        refresh_token == jwt_encode(refresh_token_data, SECRET_KEY)
    IN  IF remember_me
        THEN Update(result, [refresh_token |-> refresh_token,
                             refresh_expires_at |-> refresh_token_data["exp"]])
        ELSE result

\* a TokenService as its constructor leaves it, for the lifetimes configured
TokenService(access_token_expire_minutes, refresh_token_expire_days) ==
    [access_token_expire_minutes |-> access_token_expire_minutes,
     refresh_token_expire_days |-> refresh_token_expire_days]

\* TokenService.generate_tokens of a service configured as self
TokenService_generate_tokens(self, user_id, email, role, permissions, remember_me, additional_claims, t, jti_a, jti_r) ==
    LET access_token_data0 ==
            [sub |-> user_id, email |-> email, role |-> role, permissions |-> permissions,
             type |-> "access", exp |-> t + self.access_token_expire_minutes * 60,
             iat |-> t, jti |-> jti_a]
        access_token_data ==
            IF additional_claims # Null /\ additional_claims # EmptyDict
            THEN Update(access_token_data0, additional_claims)
            ELSE access_token_data0
        result ==
            [access_token |-> jwt_encode(access_token_data, SECRET_KEY), token_type |-> "bearer",
             expires_at |-> access_token_data["exp"],
             expires_in |-> self.access_token_expire_minutes * 60]
        refresh_token_data ==
            [sub |-> user_id, email |-> email, type |-> "refresh",
             exp |-> t + self.refresh_token_expire_days * 86400, iat |-> t, jti |-> jti_r]
    IN  IF remember_me
        THEN Update(result, [refresh_token |-> jwt_encode(refresh_token_data, SECRET_KEY),
                             refresh_expires_at |-> refresh_token_data["exp"]])
        ELSE result

\* an exception that leaves a method
Raised(exc) == [raised |-> exc]
IsRaised(r) == "raised" \in DOMAIN r

\* verify_token as it would be if it returned the role claim's default for
\* the permissions
verify_token_no_permissions(token, t) ==
    LET d == jwt_decode(token, SECRET_KEY, t) IN
    IF ~d.ok THEN Null
    ELSE IF Get(d.payload, "type", "") # "access" THEN Null
    ELSE [user_id |-> Get(d.payload, "sub", ""),
          email |-> Get(d.payload, "email", <<>>),
          role |-> Get(d.payload, "role", ""),
          permissions |-> <<>>,
          jti |-> Get(d.payload, "jti", ""),
          exp |-> Get(d.payload, "exp", NoTime),
          iat |-> Get(d.payload, "iat", NoTime)]

\* TokenService.verify_token at time t: the claims, or None; JWTError (which
\* ExpiredSignatureError extends) and every other Exception are caught
verify_token(token, t) ==
    LET d == jwt_decode(token, SECRET_KEY, t) IN
    IF ~d.ok
    THEN (IF d.exc \in {"JWTError", "ExpiredSignatureError"} THEN Null
          ELSE IF d.exc = "Exception" THEN Null
          ELSE Raised(d.exc))
    ELSE IF Get(d.payload, "type", "") # "access" THEN Null
    ELSE [user_id |-> Get(d.payload, "sub", ""),
          email |-> Get(d.payload, "email", <<>>),
          role |-> Get(d.payload, "role", ""),
          permissions |-> Get(d.payload, "permissions", <<>>),
          jti |-> Get(d.payload, "jti", ""),
          exp |-> Get(d.payload, "exp", NoTime),
          iat |-> Get(d.payload, "iat", NoTime)]

\* verify_refresh_token as it would be without the check of the type claim
verify_refresh_token_untyped(refresh_token, t) ==
    LET d == jwt_decode(refresh_token, SECRET_KEY, t) IN
    IF ~d.ok THEN Null
    ELSE [user_id |-> Get(d.payload, "sub", ""),
          email |-> Get(d.payload, "email", <<>>),
          jti |-> Get(d.payload, "jti", ""),
          exp |-> Get(d.payload, "exp", NoTime),
          iat |-> Get(d.payload, "iat", NoTime)]

\* TokenService.verify_refresh_token at time t
verify_refresh_token(refresh_token, t) ==
    LET d == jwt_decode(refresh_token, SECRET_KEY, t) IN
    IF ~d.ok
    THEN (IF d.exc \in {"JWTError", "ExpiredSignatureError"} THEN Null
          ELSE IF d.exc = "Exception" THEN Null
          ELSE Raised(d.exc))
    ELSE IF Get(d.payload, "type", "") # "refresh" THEN Null
    ELSE [user_id |-> Get(d.payload, "sub", ""),
          email |-> Get(d.payload, "email", <<>>),
          jti |-> Get(d.payload, "jti", ""),
          exp |-> Get(d.payload, "exp", NoTime),
          iat |-> Get(d.payload, "iat", NoTime)]

(***************************************************************************)
(* User entity                                                             *)
(***************************************************************************)
Roles == {"admin", "user", "viewer", "guest"}
Statuses == {"active", "inactive", "suspended", "pending"}

\* User._get_default_permissions as it would be without chat use for role user
User_get_default_permissions_no_chat(role) ==
    LET base_permissions == <<"read:public", "read:profile">>
        role_permissions ==
            [guest |-> <<>>,
             viewer |-> <<"read:documents", "read:analytics">>,
             user |-> <<"read:documents", "write:documents", "read:analytics">>,
             admin |-> <<"read:all", "write:all", "delete:all", "manage:users", "manage:system">>]
    IN  base_permissions \o Get(role_permissions, role, <<>>)

\* User._get_default_permissions
User_get_default_permissions(role) ==
    LET base_permissions == <<"read:public", "read:profile">>
        role_permissions ==
            [guest |-> <<>>,
             viewer |-> <<"read:documents", "read:analytics">>,
             user |-> <<"read:documents", "write:documents", "read:analytics", "use:chat">>,
             admin |-> <<"read:all", "write:all", "delete:all", "manage:users", "manage:system">>]
    IN  base_permissions \o Get(role_permissions, role, <<>>)

\* User.create as it would be if it kept the username as typed
User_create_username_as_typed(id, email, username, full_name, hashed_password, role) ==
    [id |-> id, email |-> Lower(email), username |-> username,
     full_name |-> full_name, hashed_password |-> hashed_password,
     role |-> role, status |-> "pending", last_login |-> NoTime,
     email_verified |-> FALSE, permissions |-> User_get_default_permissions(role)]

\* User.create; id is the uuid4 drawn
User_create(id, email, username, full_name, hashed_password, role) ==
    [id |-> id, email |-> Lower(email), username |-> Lower(username),
     full_name |-> full_name, hashed_password |-> hashed_password,
     role |-> role, status |-> "pending", last_login |-> NoTime,
     email_verified |-> FALSE, permissions |-> User_get_default_permissions(role)]

\* User.can_manage_user
User_can_manage_user(self, target_user) ==
    IF self.status # "active" THEN FALSE
    ELSE IF self.role = "admin" THEN TRUE
    ELSE self.id = target_user.id

\* User.update_role: the user afterwards, or the error raised
User_update_role(self, new_role, updated_by) ==
    IF ~User_can_manage_user(updated_by, self) THEN Raised("PermissionError")
    ELSE IF self.id = updated_by.id /\ new_role # self.role THEN Raised("ValueError")
    ELSE [self EXCEPT !.role = new_role,
                      !.permissions = User_get_default_permissions(new_role)]

\* User.activate as it would be if it marked the email verified only
User_activate_keeps_status(self) ==
    IF self.status = "suspended"
    THEN Raised("ValueError")
    ELSE [self EXCEPT !.email_verified = TRUE]

\* User.activate: the user afterwards, or the ValueError raised
User_activate(self) ==
    IF self.status = "suspended"
    THEN Raised("ValueError")
    ELSE [self EXCEPT !.status = "active", !.email_verified = TRUE]

\* User.suspend: the user afterwards, or the error raised
User_suspend(self, suspended_by) ==
    IF ~User_can_manage_user(suspended_by, self) THEN Raised("PermissionError")
    ELSE IF self.id = suspended_by.id THEN Raised("ValueError")
    ELSE [self EXCEPT !.status = "suspended"]

\* User.update_last_login at time t
User_update_last_login(self, t) == [self EXCEPT !.last_login = t]

(***************************************************************************)
(* InMemoryUserRepository, over the three dictionaries                     *)
(***************************************************************************)
\* the seeded administrator; its stored password hash is not a real hash
AdminEmail == <<"a","d","m","i","n","@","e","x","a","m","p","l","e",".","c","o","m">>
AdminUsername == <<"a","d","m","i","n">>
AdminFullName == <<"A","d","m","i","n","i","s","t","r","a","t","o","r">>
AdminId == "u0"
SeedAdmin ==
    [User_create(AdminId, AdminEmail, AdminUsername, AdminFullName,
                 [wellformed |-> FALSE, of |-> <<>>], "admin")
     EXCEPT !.status = "active"]

\* the ids uuid4 hands out to registered users
UserIds == {"u1", "u2", "u3"}

find_by_id(user_id) == Get(users_by_id, user_id, Null)

find_by_email(email_value) ==
    IF Lower(email_value) \in DOMAIN users_by_email
    THEN Get(users_by_id, users_by_email[Lower(email_value)], Null)
    ELSE Null

exists_by_email(email_value) == Lower(email_value) \in DOMAIN users_by_email

exists_by_username(username) == Lower(username) \in DOMAIN users_by_username

\* InMemoryUserRepository.save, which is _insert: the next values of the dictionaries
SaveUser(user) ==
    /\ users_by_id' = Update(users_by_id, [k \in {user.id} |-> user])
    /\ users_by_email' = Update(users_by_email, [k \in {user.email} |-> user.id])
    /\ users_by_username' = Update(users_by_username, [k \in {user.username} |-> user.id])

DirectoryUnchanged == UNCHANGED <<users_by_id, users_by_email, users_by_username>>

(***************************************************************************)
(* User entity: grants.  Permission and Session entities.  The uuid        *)
(* Permission.create draws, and the fields no operation reads (conditions, *)
(* granted_at, granted_by, created_at, last_activity, device data,         *)
(* tokens), are left out.                                                  *)
(***************************************************************************)
\* list.remove: s without the first occurrence of x
RECURSIVE RemoveFirst(_, _)
RemoveFirst(s, x) ==
    IF s = <<>> THEN <<>>
    ELSE IF Head(s) = x THEN Tail(s)
    ELSE <<Head(s)>> \o RemoveFirst(Tail(s), x)

\* User.add_permission: the user afterwards, or the PermissionError raised
User_add_permission(self, permission, granted_by) ==
    IF granted_by.role # "admin" THEN Raised("PermissionError")
    ELSE IF permission \notin Range(self.permissions)
    THEN [self EXCEPT !.permissions = Append(self.permissions, permission)]
    ELSE self

\* User.remove_permission
User_remove_permission(self, permission, revoked_by) ==
    IF revoked_by.role # "admin" THEN Raised("PermissionError")
    ELSE IF permission \in Range(self.permissions)
    THEN [self EXCEPT !.permissions = RemoveFirst(self.permissions, permission)]
    ELSE self

\* User.verify_password: plain comparison with the stored value
User_verify_password(self, plain_password) == plain_password = self.hashed_password

User_is_active(self) == self.status = "active"

\* None or the empty text, where a resource is expected
NoResource == ""

\* Permission.create
Permission_create(user_id, name, type, scope, resource) ==
    [user_id |-> user_id, name |-> name, type |-> type, scope |-> scope,
     resource |-> resource, expires_at |-> NoTime, is_active |-> TRUE]

\* Permission.is_expired at time t
Permission_is_expired(self, t) ==
    IF self.expires_at = NoTime THEN FALSE ELSE t > self.expires_at

\* Permission.is_valid at time t
Permission_is_valid(self, t) == self.is_active /\ ~Permission_is_expired(self, t)

Permission_deactivate(self) == [self EXCEPT !.is_active = FALSE]

\* Permission.matches at time t
Permission_matches(self, required_name, required_type, required_scope, resource, t) ==
    IF ~Permission_is_valid(self, t) THEN FALSE
    ELSE IF self.name # required_name \/ self.type # required_type
            \/ self.scope # required_scope
    THEN FALSE
    ELSE IF resource # NoResource /\ self.resource # NoResource /\ self.resource # resource
    THEN FALSE
    ELSE TRUE

DaySeconds == 24 * 60 * 60

\* Permission.extend at time t: datetime.replace(day=day + days) either moves
\* the expiry (or, without one, the present instant) on by that many days or,
\* when the month has no such day, raises ValueError.  The outcomes possible.
Permission_extend(self, days, t) ==
    LET base == IF self.expires_at = NoTime THEN t ELSE self.expires_at IN
    { [self EXCEPT !.expires_at = base + days * DaySeconds], Raised("ValueError") }

\* the predefined names that contain "admin", and those that contain "system"
NamesWithAdmin == {"system:admin"}
NamesWithSystem == {"system:admin", "config:system"}

\* get_default_permissions(role) of the permission module; user_id is set
\* by the aggregate afterwards
get_default_permissions(role) ==
    LET adminNames == <<"read:documents", "write:documents", "delete:documents",
                        "upload:documents", "read:users", "write:users", "delete:users",
                        "manage:users", "use:chat", "manage:chat", "view:analytics",
                        "export:analytics", "system:admin", "config:system">>
        managerNames == <<"read:documents", "write:documents", "delete:documents",
                          "upload:documents", "read:users", "write:users",
                          "use:chat", "manage:chat", "view:analytics", "export:analytics">>
        userNames == <<"read:documents", "upload:documents", "use:chat">>
        ManagerWrites == {"write:documents", "write:users", "manage:chat"}
    IN  IF role = "admin"
        THEN [i \in DOMAIN adminNames |->
                Permission_create("", adminNames[i],
                    IF adminNames[i] \in NamesWithAdmin THEN "admin" ELSE "read",
                    IF adminNames[i] \in NamesWithSystem THEN "system" ELSE "documents",
                    NoResource)]
        ELSE IF role = "manager"
        THEN [i \in DOMAIN managerNames |->
                Permission_create("", managerNames[i],
                    IF managerNames[i] \in ManagerWrites THEN "write" ELSE "read",
                    "documents", NoResource)]
        ELSE [i \in DOMAIN userNames |->
                Permission_create("", userNames[i], "read", "documents", NoResource)]

\* the names of a list of permissions
Names(permissions) == [i \in DOMAIN permissions |-> permissions[i].name]

SessionHours == 24

\* Session.create_for_user at time t; id is the uuid4 drawn
Session_create_for_user(id, user_id, t) ==
    [id |-> id, user_id |-> user_id, is_active |-> TRUE,
     expires_at |-> t + SessionHours * 60 * 60]

\* Session.is_expired at time t
Session_is_expired(self, t) == t > self.expires_at

\* Session.is_valid at time t
Session_is_valid(self, t) == self.is_active /\ ~Session_is_expired(self, t)

Session_deactivate(self) == [self EXCEPT !.is_active = FALSE]

(***************************************************************************)
(* UserAggregate: a user with its permissions and sessions                 *)
(***************************************************************************)
\* email.split('@')[0]
RECURSIVE BeforeAt(_)
BeforeAt(s) ==
    IF s = <<>> \/ Head(s) = "@" THEN <<>> ELSE <<Head(s)>> \o BeforeAt(Tail(s))

\* UserAggregate._validate_registration_data
UserAggregate_validate_registration_data(email, password, full_name) ==
    /\ Email(email).ok
    /\ password # <<>> /\ Len(password) >= 8
    /\ full_name # <<>> /\ Len(Strip(full_name)) >= 2

\* UserAggregate.register_user on the aggregate UseCase code builds around
\* User.create_empty(); new_id is the uuid4 User.create draws.  The aggregate
\* afterwards, or the ValueError raised.
UserAggregate_register_user(email, password, full_name, username, new_id) ==
    IF ~UserAggregate_validate_registration_data(email, password, full_name)
    THEN Raised("ValueError")
    ELSE
    LET user == User_create(new_id, email,
                            IF username # <<>> THEN username ELSE BeforeAt(email),
                            full_name, password, "user")
        defaults == get_default_permissions(user.role)
    IN  [user |-> User_activate(user),
         permissions |-> [i \in DOMAIN defaults |-> [defaults[i] EXCEPT !.user_id = user.id]],
         sessions |-> <<>>]

\* UserAggregate.authenticate at time t; sid is the uuid4 of the new session
UserAggregate_authenticate(self, password, t, sid) ==
    IF ~User_verify_password(self.user, password) THEN Raised("ValueError")
    ELSE IF ~User_is_active(self.user) THEN Raised("ValueError")
    ELSE [self EXCEPT !.sessions = Append(self.sessions,
                                          Session_create_for_user(sid, self.user.id, t)),
                      !.user = User_update_last_login(self.user, t)]

\* UserAggregate._invalidate_sessions and invalidate_all_sessions
UserAggregate_invalidate_sessions(self) ==
    [self EXCEPT !.sessions = [i \in DOMAIN self.sessions |-> Session_deactivate(self.sessions[i])]]

\* UserAggregate.update_role.  Its second step calls User.update_role with
\* the new role alone, while that method requires updated_by as well: the
\* call raises TypeError before anything is assigned, so the steps after it
\* (permissions, sessions) are never reached.
UserAggregate_update_role(self, new_role, updated_by) ==
    IF ~User_can_manage_user(updated_by, self.user) THEN Raised("PermissionError")
    ELSE Raised("TypeError")

\* the temporary administrator suspend_account builds when it is given no
\* actor: User.create(email="admin@system.com", username="admin", ...)
TempAdminEmail == <<"a","d","m","i","n","@","s","y","s","t","e","m",".","c","o","m">>
TempAdmin(id) ==
    User_create(id, TempAdminEmail, <<"a","d","m","i","n">>,
                <<"S","y","s","t","e","m"," ","A","d","m","i","n">>, <<>>, "admin")

\* UserAggregate.suspend_account; suspended_by is a user or None, temp_id the
\* uuid4 of the temporary administrator.  The aggregate afterwards, or the
\* error User.suspend raised, in which case no session is touched.
UserAggregate_suspend_account(self, suspended_by, temp_id) ==
    LET actor == IF suspended_by # Null THEN suspended_by ELSE TempAdmin(temp_id)
        user == User_suspend(self.user, actor)
    IN  IF IsRaised(user) THEN user
        ELSE UserAggregate_invalidate_sessions([self EXCEPT !.user = user])

PermissionTypes == {"read", "write", "delete", "admin"}
PermissionScopes == {"documents", "users", "chat", "analytics", "system"}

\* UserAggregate.add_permission; the enum constructors raise ValueError
UserAggregate_add_permission(self, permission_name, permission_type, scope) ==
    IF permission_type \notin PermissionTypes \/ scope \notin PermissionScopes
    THEN Raised("ValueError")
    ELSE [self EXCEPT !.permissions =
              Append(self.permissions,
                     Permission_create(self.user.id, permission_name, permission_type, scope,
                                       NoResource))]

\* UserAggregate.remove_permission
UserAggregate_remove_permission(self, permission_name) ==
    [self EXCEPT !.permissions = SelectSeq(self.permissions,
                                           LAMBDA q : q.name # permission_name)]

\* UserAggregate.has_permission at time t
UserAggregate_has_permission(self, permission_name, t) ==
    \E i \in DOMAIN self.permissions :
        self.permissions[i].name = permission_name /\ Permission_is_valid(self.permissions[i], t)

\* UserAggregate.get_active_sessions at time t
UserAggregate_get_active_sessions(self, t) ==
    SelectSeq(self.sessions, LAMBDA x : Session_is_valid(x, t))

\* UserAggregate.invalidate_session
UserAggregate_invalidate_session(self, session_id) ==
    LET hits == {i \in DOMAIN self.sessions : self.sessions[i].id = session_id} IN
    IF hits = {} THEN self
    ELSE LET first == CHOOSE i \in hits : \A j \in hits : i <= j IN
         [self EXCEPT !.sessions[first] = Session_deactivate(self.sessions[first])]

(***************************************************************************)
(* Login-attempts guard: blocks an email once AttemptsLimit failures are   *)
(* recorded for it                                                         *)
(***************************************************************************)
is_blocked(email_value) == Get(attempts, email_value, 0) >= AttemptsLimit

record_failed_attempt(email_value) ==
    Update(attempts, [k \in {email_value} |-> Get(attempts, email_value, 0) + 1])

clear_attempts(email_value) ==
    [k \in DOMAIN attempts \ {email_value} |-> attempts[k]]

(***************************************************************************)
(* LoginUseCase                                                            *)
(***************************************************************************)
NoMsg == Msg("", <<>>)

\* What one call of a use case did: the exception it raised ("" when it
\* returned), the message, the case of the login state machine it ended in,
\* the collaborator calls it made in order, the user it saved, the email it
\* recorded a failure for or cleared, and the response it returned.
Outcome(exc, msg, path, calls) ==
    [exc |-> exc, msg |-> msg, path |-> path, calls |-> calls,
     saved |-> Null, failed |-> FALSE, cleared |-> FALSE, email |-> <<>>,
     token_data |-> Null, response |-> Null]

\* the guard call as it would be if made whether or not a guard is configured
GuardCalls_unconditional(c) == <<c>>

\* a call of the guard, made only when one is configured
GuardCalls(c) == IF guardOn THEN <<c>> ELSE <<>>

\* the status checks as they would be without the one for suspended accounts
LoginStatusCheck_no_suspended(user) ==
    IF user.status = "inactive"
    THEN [ok |-> FALSE, path |-> "inactive",
          msg |-> Msg("Your account is inactive. Please contact support.", <<>>)]
    ELSE IF user.status = "pending"
    THEN (IF user.email_verified
          THEN [ok |-> TRUE, path |-> "pending_verified_auto_activate", user |-> User_activate(user)]
          ELSE [ok |-> FALSE, path |-> "pending_unverified",
                msg |-> Msg("Please verify your email address before logging in.", <<>>)])
    ELSE [ok |-> TRUE, path |-> "active_ok", user |-> user]

\* the status checks of LoginUseCase.execute: the user to go on with, or the
\* AccountNotActiveError raised
LoginStatusCheck(user) ==
    IF user.status = "suspended"
    THEN [ok |-> FALSE, path |-> "suspended",
          msg |-> Msg("Your account has been suspended. Please contact support.", <<>>)]
    ELSE IF user.status = "inactive"
    THEN [ok |-> FALSE, path |-> "inactive",
          msg |-> Msg("Your account is inactive. Please contact support.", <<>>)]
    ELSE IF user.status = "pending"
    THEN (IF user.email_verified
          THEN [ok |-> TRUE, path |-> "pending_verified_auto_activate", user |-> User_activate(user)]
          ELSE [ok |-> FALSE, path |-> "pending_unverified",
                msg |-> Msg("Please verify your email address before logging in.", <<>>)])
    ELSE [ok |-> TRUE, path |-> "active_ok", user |-> user]

\* the messages of the two InvalidCredentialsError raised after the lookup
NotFoundMessage_revealing == Msg("No account for this email", <<>>)

NotFoundMessage == Msg("Invalid email or password", <<>>)

BadPasswordMessage == Msg("Invalid email or password", <<>>)

\* LoginUseCase.execute as it would be with the account status examined before
\* the password
LoginAuthenticate_status_first(request, email_value, user, c1) ==
    LET st == LoginStatusCheck(user)
        is_valid == PasswordService_verify(request.password, user.hashed_password)
        c2 == c1 \o <<"verify">>
    IN
    IF ~st.ok
    THEN [Outcome("AccountNotActiveError", st.msg, st.path, c1) EXCEPT !.email = email_value]
    ELSE IF ~is_valid
    THEN [Outcome("InvalidCredentialsError", BadPasswordMessage,
                  "bad_password", c2 \o GuardCalls("record_failed_attempt"))
          EXCEPT !.failed = guardOn, !.email = email_value]
    ELSE
    LET token_data == generate_tokens(st.user.id, st.user.email, st.user.role,
                                      st.user.permissions, request.remember_me, Null,
                                      now, "jti1", "jti1")
        saved == User_update_last_login(st.user, now)
    IN  [Outcome("", NoMsg, st.path,
                 c2 \o <<"generate_tokens", "save">> \o GuardCalls("clear_attempts"))
         EXCEPT !.saved = saved, !.cleared = guardOn, !.email = email_value,
                !.token_data = token_data,
                !.response =
                    [user |-> saved,
                     access_token |-> token_data["access_token"],
                     refresh_token |-> IF request.remember_me
                                       THEN Get(token_data, "refresh_token", Null)
                                       ELSE Null,
                     expires_at |-> token_data["expires_at"]]]

\* LoginUseCase.execute from the password verification on, for the user found
\* under the email; c1 are the collaborator calls made so far
LoginAuthenticate(request, email_value, user, c1) ==
    LET is_valid == PasswordService_verify(request.password, user.hashed_password)
        c2 == c1 \o <<"verify">>
    IN
    IF ~is_valid
    THEN [Outcome("InvalidCredentialsError", BadPasswordMessage,
                  "bad_password", c2 \o GuardCalls("record_failed_attempt"))
          EXCEPT !.failed = guardOn, !.email = email_value]
    ELSE
    LET st == LoginStatusCheck(user) IN
    IF ~st.ok
    THEN [Outcome("AccountNotActiveError", st.msg, st.path, c2) EXCEPT !.email = email_value]
    ELSE
    LET token_data == generate_tokens(st.user.id, st.user.email, st.user.role,
                                      st.user.permissions, request.remember_me, Null,
                                      now, "jti1", "jti1")
        saved == User_update_last_login(st.user, now)
    IN  [Outcome("", NoMsg, st.path,
                 c2 \o <<"generate_tokens", "save">> \o GuardCalls("clear_attempts"))
         EXCEPT !.saved = saved, !.cleared = guardOn, !.email = email_value,
                !.token_data = token_data,
                !.response =
                    [user |-> saved,
                     access_token |-> token_data["access_token"],
                     refresh_token |-> IF request.remember_me
                                       THEN Get(token_data, "refresh_token", Null)
                                       ELSE Null,
                     expires_at |-> token_data["expires_at"]]]

\* LoginUseCase.execute at time now
LoginUseCase_execute(request) ==
    LET email == Email(request.email) IN
    IF ~email.ok
    THEN Outcome("InvalidCredentialsError", Wrap("Invalid email format: ", email.err),
                 "email_invalid", <<>>)
    ELSE IF guardOn /\ is_blocked(email.value)
    THEN [Outcome("LoginError",
                  Msg("Too many failed login attempts. Please try again later.", <<>>),
                  "rate_limited", <<"is_blocked">>)
          EXCEPT !.email = email.value]
    ELSE
    LET user == find_by_email(email.value)
        c1 == GuardCalls("is_blocked") \o <<"find_by_email">>
    IN
    IF user = Null
    THEN [Outcome("InvalidCredentialsError", NotFoundMessage,
                  "not_found", c1 \o GuardCalls("record_failed_attempt"))
          EXCEPT !.failed = guardOn, !.email = email.value]
    ELSE LoginAuthenticate(request, email.value, user, c1)

\* LoginUseCase.validate_token: the user or None
LoginUseCase_validate_token(token) ==
    LET token_data == verify_token(token, now) IN
    IF token_data = Null THEN Null
    ELSE LET user == find_by_id(token_data.user_id) IN
         IF user = Null \/ user.status # "active" THEN Null ELSE user

\* LoginUseCase.refresh_token as it would be without the check of the
\* user's status
LoginUseCase_refresh_token_any_status(refresh_token) ==
    LET token_data == verify_refresh_token(refresh_token, now) IN
    IF token_data = Null
    THEN Outcome("LoginError", Msg("Invalid refresh token", <<>>), "invalid_token",
                 <<"verify_refresh_token">>)
    ELSE
    LET user == find_by_id(token_data.user_id) IN
    IF user = Null
    THEN Outcome("LoginError", Msg("User not found or inactive", <<>>), "user_not_active",
                 <<"verify_refresh_token", "find_by_id">>)
    ELSE
    LET new_token_data == generate_tokens(user.id, user.email, user.role, user.permissions,
                                          TRUE, Null, now, "jti1", "jti1")
    IN  [Outcome("", NoMsg, "refreshed",
                 <<"verify_refresh_token", "find_by_id", "generate_tokens">>)
         EXCEPT !.token_data = new_token_data,
                !.response =
                    [user |-> user,
                     access_token |-> new_token_data["access_token"],
                     refresh_token |-> new_token_data["refresh_token"],
                     expires_at |-> new_token_data["expires_at"]]]

\* LoginUseCase.refresh_token at time now
LoginUseCase_refresh_token(refresh_token) ==
    LET token_data == verify_refresh_token(refresh_token, now) IN
    IF token_data = Null
    THEN Outcome("LoginError", Msg("Invalid refresh token", <<>>), "invalid_token",
                 <<"verify_refresh_token">>)
    ELSE
    LET user == find_by_id(token_data.user_id) IN
    IF user = Null \/ user.status # "active"
    THEN Outcome("LoginError", Msg("User not found or inactive", <<>>), "user_not_active",
                 <<"verify_refresh_token", "find_by_id">>)
    ELSE
    LET new_token_data == generate_tokens(user.id, user.email, user.role, user.permissions,
                                          TRUE, Null, now, "jti1", "jti1")
    IN  [Outcome("", NoMsg, "refreshed",
                 <<"verify_refresh_token", "find_by_id", "generate_tokens">>)
         EXCEPT !.token_data = new_token_data,
                !.response =
                    [user |-> user,
                     access_token |-> new_token_data["access_token"],
                     refresh_token |-> new_token_data["refresh_token"],
                     expires_at |-> new_token_data["expires_at"]]]

\* LoginUseCase.execute of a use case built around the token service given:
\* nothing before the issue of the tokens depends on the service
LoginUseCase_execute_with(token_service, request) ==
    LET out == LoginUseCase_execute(request) IN
    IF out.exc # "" THEN out
    ELSE
    LET token_data == TokenService_generate_tokens(token_service, out.saved.id, out.saved.email,
                                                   out.saved.role, out.saved.permissions,
                                                   request.remember_me, Null, now, "jti1", "jti1")
    IN  [out EXCEPT !.token_data = token_data,
                    !.response =
                        [user |-> out.saved,
                         access_token |-> token_data["access_token"],
                         refresh_token |-> IF request.remember_me
                                           THEN Get(token_data, "refresh_token", Null)
                                           ELSE Null,
                         expires_at |-> token_data["expires_at"]]]

\* the expires_in the login endpoint writes into its TokenResponse
LOGIN_EXPIRES_IN == 1800

\* the TokenResponse of the endpoint login_user for the use case's result
login_user(result) ==
    [access_token |-> result.access_token, token_type |-> "bearer",
     expires_in |-> LOGIN_EXPIRES_IN, refresh_token |-> result.refresh_token]

(***************************************************************************)
(* RegisterUseCase                                                         *)
(***************************************************************************)
\* the role new users get: RegisterUseCase.default_role
DefaultRole == "user"

\* str.isalnum(): not empty and letters or digits only
IsAlnum(s) ==
    /\ s # <<>>
    /\ \A i \in DOMAIN s : s[i] \in UpperChars \cup LowerChars \cup DigitChars

\* the username checks of RegisterUseCase.execute: the message of the first
\* that fails, or NoMsg
RegisterUsernameCheck(username) ==
    IF username = <<>> THEN Msg("Username is required", <<>>)
    ELSE IF Len(username) < 3 THEN Msg("Username must be at least 3 characters", <<>>)
    ELSE IF Len(username) > 50 THEN Msg("Username cannot exceed 50 characters", <<>>)
    ELSE IF ~IsAlnum(Remove(Remove(username, "_"), "-"))
    THEN Msg("Username can only contain letters, numbers, underscore and hyphen", <<>>)
    ELSE NoMsg

\* the full-name checks of RegisterUseCase.execute
RegisterFullNameCheck(full_name) ==
    IF full_name = <<>> THEN Msg("Full name is required", <<>>)
    ELSE IF Len(full_name) < 2 THEN Msg("Full name must be at least 2 characters", <<>>)
    ELSE IF Len(full_name) > 100 THEN Msg("Full name cannot exceed 100 characters", <<>>)
    ELSE NoMsg

\* RegisterUseCase.execute as it would be with the username examined before
\* the password confirmation
RegisterUseCase_execute_username_first(request, new_id) ==
    LET email == Email(request.email) IN
    IF ~email.ok
    THEN Outcome("RegisterError", Wrap("Invalid email: ", email.err), "email_format", <<>>)
    ELSE IF RegisterUsernameCheck(request.username) # NoMsg
    THEN Outcome("RegisterError", RegisterUsernameCheck(request.username), "username", <<>>)
    ELSE IF request.password # request.password_confirm
    THEN Outcome("PasswordMismatchError", Msg("Passwords do not match", <<>>),
                 "password_confirm", <<>>)
    ELSE
    LET password == Password(request.password) IN
    IF ~password.ok
    THEN Outcome("RegisterError", Wrap("Invalid password: ", password.err),
                 "password_policy", <<>>)
    ELSE IF RegisterFullNameCheck(request.full_name) # NoMsg
    THEN Outcome("RegisterError", RegisterFullNameCheck(request.full_name), "full_name", <<>>)
    ELSE IF exists_by_email(email.value)
    THEN Outcome("EmailAlreadyExistsError", Msg("Email {email} is already registered", email.value),
                 "email_exists", <<"exists_by_email">>)
    ELSE IF exists_by_username(Lower(request.username))
    THEN Outcome("UsernameAlreadyExistsError",
                 Msg("Username {username} is already taken", request.username),
                 "username_exists", <<"exists_by_email", "exists_by_username">>)
    ELSE
    LET hashed_password == PasswordService_hash(password.value)
        user == User_create(new_id, email.value, request.username, request.full_name,
                            hashed_password, DefaultRole)
    IN  [Outcome("", NoMsg, "registered",
                 <<"exists_by_email", "exists_by_username", "hash", "save">>)
         EXCEPT !.saved = user, !.email = email.value,
                !.response = [user |-> user, verification_token |-> Null,
                              message |-> "Registration successful"]]

\* RegisterUseCase.execute; new_id is the uuid4 the new user gets
RegisterUseCase_execute(request, new_id) ==
    LET email == Email(request.email) IN
    IF ~email.ok
    THEN Outcome("RegisterError", Wrap("Invalid email: ", email.err), "email_format", <<>>)
    ELSE IF request.password # request.password_confirm
    THEN Outcome("PasswordMismatchError", Msg("Passwords do not match", <<>>),
                 "password_confirm", <<>>)
    ELSE
    LET password == Password(request.password) IN
    IF ~password.ok
    THEN Outcome("RegisterError", Wrap("Invalid password: ", password.err),
                 "password_policy", <<>>)
    ELSE IF RegisterUsernameCheck(request.username) # NoMsg
    THEN Outcome("RegisterError", RegisterUsernameCheck(request.username), "username", <<>>)
    ELSE IF RegisterFullNameCheck(request.full_name) # NoMsg
    THEN Outcome("RegisterError", RegisterFullNameCheck(request.full_name), "full_name", <<>>)
    ELSE IF exists_by_email(email.value)
    THEN Outcome("EmailAlreadyExistsError", Msg("Email {email} is already registered", email.value),
                 "email_exists", <<"exists_by_email">>)
    ELSE IF exists_by_username(Lower(request.username))
    THEN Outcome("UsernameAlreadyExistsError",
                 Msg("Username {username} is already taken", request.username),
                 "username_exists", <<"exists_by_email", "exists_by_username">>)
    ELSE
    LET hashed_password == PasswordService_hash(password.value)
        user == User_create(new_id, email.value, request.username, request.full_name,
                            hashed_password, DefaultRole)
    IN  [Outcome("", NoMsg, "registered",
                 <<"exists_by_email", "exists_by_username", "hash", "save">>)
         EXCEPT !.saved = user, !.email = email.value,
                !.response = [user |-> user, verification_token |-> Null,
                              message |-> "Registration successful"]]

\* RegisterUseCase.verify_email: email_service says whether the collaborator
\* is configured, user_id is what it resolved the token to ("" for None);
\* the user to save, or the error raised
RegisterUseCase_verify_email(email_service, user_id) ==
    IF ~email_service THEN Raised("RegisterError")
    ELSE IF user_id = "" THEN Raised("RegisterError")
    ELSE LET user == find_by_id(user_id) IN
         IF user = Null THEN Raised("RegisterError")
         ELSE User_activate(user)

(***************************************************************************)
(* Enforcement dependencies of the API                                     *)
(***************************************************************************)
HTTPException(status_code, detail) == [status_code |-> status_code, detail |-> detail]
IsHTTPException(r) == "status_code" \in DOMAIN r

\* get_current_user at time t; authorization is the header, None or a scheme
\* and what follows it
get_current_user(authorization, t) ==
    IF authorization = Null \/ authorization.scheme # "Bearer"
    THEN HTTPException(401, "Not authenticated")
    ELSE
    LET token_data == verify_token(authorization.token, t) IN
    IF token_data = Null THEN HTTPException(401, "Invalid token")
    ELSE
    LET user == find_by_id(token_data.user_id) IN
    IF user = Null THEN HTTPException(401, "User not found")
    ELSE user

\* the dependency require_roles(*roles) builds, given what get_current_user gave
require_roles(roles, current_user) ==
    IF IsHTTPException(current_user) THEN current_user
    ELSE IF current_user.role \notin roles THEN HTTPException(403, "Insufficient role")
    ELSE current_user

\* the dependency require_permissions(*permissions) builds
require_permissions(permissions, current_user) ==
    IF IsHTTPException(current_user) THEN current_user
    ELSE IF current_user.role = "admin" THEN current_user
    ELSE IF \E p \in permissions : p \notin Range(current_user.permissions)
    THEN HTTPException(403, "Missing permissions")
    ELSE current_user

(***************************************************************************)
(* Inputs                                                                  *)
(***************************************************************************)
EmailA == <<"a","@","b",".","c","o","m">>
\* the same address as a client may type it
EmailAtyped == <<" ","A","@","B",".","c","o","m">>
EmailC == <<"c","@","d",".","i","o">>
EmailMalformed == <<"a","b",".","c","o","m">>
EmailEmpty == <<>>

UsernameAlice == <<"a","l","i","c","e">>
UsernameAliceCaps == <<"A","l","i","c","e">>
UsernameBob == <<"b","o","b">>
UsernameShort == <<"a","l">>
UsernameSymbols == <<"_","-","_">>

FullNameAlice == <<"A","l","i","c","e"," ","A">>
FullNameBob == <<"B","o","b"," ","B">>
FullNameShort == <<"A">>

PasswordA == <<"X","y","9","#","k","L","2","m">>
PasswordB == <<"Q","z","7","!","r","T","4","w">>
\* Abc12345!
PasswordExample == <<"A","b","c","1","2","3","4","5","!">>
PasswordShort == <<"A","b","1","!">>

RegisterRequest(email, username, full_name, password, password_confirm) ==
    [email |-> email, username |-> username, full_name |-> full_name,
     password |-> password, password_confirm |-> password_confirm]

\* the registration made in the login model
BasicRegisterRequests ==
    { RegisterRequest(EmailA, UsernameAlice, FullNameAlice, PasswordA, PasswordA) }

\* the registrations tried in the registration model
AllRegisterRequests ==
    { RegisterRequest(e, u, f, p, c) :
        e \in {EmailA, EmailAtyped, EmailC, EmailMalformed},
        u \in {UsernameAlice, UsernameAliceCaps, UsernameBob, UsernameShort},
        f \in {FullNameAlice, FullNameShort},
        p \in {PasswordA, PasswordExample},
        c \in {PasswordA, PasswordExample} }

LoginRequest(email, password, remember_me) ==
    [email |-> email, password |-> password, remember_me |-> remember_me]

LoginRequests ==
    { LoginRequest(e, p, r) :
        e \in {EmailAtyped, EmailC, EmailMalformed},
        p \in {PasswordA, PasswordB},
        r \in BOOLEAN }

\* the instants the clock is read at: a token issued at 0 is looked at when it
\* expires and one second later
Instants == {0, AccessSeconds, AccessSeconds + 1, RefreshSeconds, RefreshSeconds + 1}
CoarseInstants == {0, RefreshSeconds + 1}

\* what a client can send where a token is expected: the token it kept, the
\* same claims signed with another key, text that is no token, no text at all
Presentable ==
    (IF kept = Null THEN {} ELSE {kept, jwt_encode(kept.claims, OtherKey)})
    \cup {GarbageToken, NonStringToken}

\* the tokens of a result of generate_tokens or of a response
TokensIn(r, keys) == {r[k] : k \in {k \in keys \cap DOMAIN r : r[k] # Null}}

(***************************************************************************)
(* Initial state: the repository as its constructor leaves it              *)
(***************************************************************************)
Init ==
    /\ now = 0
    /\ users_by_id = [k \in {AdminId} |-> SeedAdmin]
    /\ users_by_email = [k \in {SeedAdmin.email} |-> AdminId]
    /\ users_by_username = [k \in {SeedAdmin.username} |-> AdminId]
    /\ attempts = EmptyDict
    /\ guardOn \in BOOLEAN
    /\ kept = Null
    /\ aggregate = Null
    /\ in_flight = EmptyDict
    /\ history = [refreshed |-> {}, revoked |-> {}]
    /\ last = [op |-> "init"]

(***************************************************************************)
(* Actions                                                                 *)
(***************************************************************************)
\* time passes
Tick(instants) ==
    /\ \E t \in instants : t > now /\ now' = t
    /\ last' = [op |-> "tick"]
    /\ UNCHANGED <<users_by_id, users_by_email, users_by_username, attempts, guardOn, history, kept,
                   aggregate, in_flight>>

\* a call of RegisterUseCase.execute
Register(requests) ==
    \E request \in requests :
        LET new_id == CHOOSE id \in UserIds : id \notin DOMAIN users_by_id
            out == RegisterUseCase_execute(request, new_id)
        IN  /\ IF out.saved # Null THEN SaveUser(out.saved) ELSE DirectoryUnchanged
            /\ last' = [op |-> "register", request |-> request, out |-> out]
            /\ UNCHANGED <<now, attempts, guardOn, history, kept,
                           aggregate, in_flight>>

\* a call of LoginUseCase.execute
Login ==
    \E request \in LoginRequests :
        LET out == LoginUseCase_execute(request) IN
        /\ IF out.saved # Null THEN SaveUser(out.saved) ELSE DirectoryUnchanged
        /\ attempts' = IF out.failed THEN record_failed_attempt(out.email)
                       ELSE IF out.cleared THEN clear_attempts(out.email)
                       ELSE attempts
        /\ kept' \in {kept} \cup (IF out.response = Null THEN {}
                                  ELSE TokensIn(out.response, {"access_token", "refresh_token"}))
        /\ last' = [op |-> "login", request |-> request, out |-> out]
        /\ UNCHANGED <<now, guardOn, history,
                       aggregate, in_flight>>

\* a call of LoginUseCase.refresh_token
RefreshToken ==
    \E token \in Presentable :
        LET out == LoginUseCase_refresh_token(token) IN
        /\ kept' \in {kept} \cup (IF out.response = Null THEN {}
                                  ELSE TokensIn(out.response, {"access_token", "refresh_token"}))
        /\ last' = [op |-> "refresh_token", token |-> token, out |-> out]
        /\ UNCHANGED <<now, users_by_id, users_by_email, users_by_username, attempts, guardOn, history,
                       aggregate, in_flight>>

\* a user is suspended by another: User.suspend, then the repository's save
Suspend ==
    \E target \in DOMAIN users_by_id, actor \in DOMAIN users_by_id :
        LET user == User_suspend(users_by_id[target], users_by_id[actor]) IN
        /\ IF IsRaised(user) THEN DirectoryUnchanged ELSE SaveUser(user)
        /\ last' = [op |-> "suspend", target |-> target, actor |-> actor,
                    exc |-> IF IsRaised(user) THEN user.raised ELSE ""]
        /\ UNCHANGED <<now, attempts, guardOn, history, kept,
                       aggregate, in_flight>>

\* a user's role is changed by another: User.update_role, then the repository's save
UpdateRole ==
    \E target \in DOMAIN users_by_id, actor \in DOMAIN users_by_id :
        \E new_role \in {"user", "viewer"} :
            LET user == User_update_role(users_by_id[target], new_role, users_by_id[actor]) IN
            /\ IF IsRaised(user) THEN DirectoryUnchanged ELSE SaveUser(user)
            /\ last' = [op |-> "update_role", target |-> target, actor |-> actor,
                        new_role |-> new_role,
                        exc |-> IF IsRaised(user) THEN user.raised ELSE ""]
            /\ UNCHANGED <<now, attempts, guardOn, history, kept,
                           aggregate, in_flight>>

\* the directory's record of a pending user is marked as having a verified
\* email, from outside the use cases
MarkEmailVerified ==
    \E id \in DOMAIN users_by_id :
        /\ users_by_id[id].status = "pending"
        /\ ~users_by_id[id].email_verified
        /\ users_by_id' = [users_by_id EXCEPT ![id].email_verified = TRUE]
        /\ last' = [op |-> "mark_email_verified", id |-> id]
        /\ UNCHANGED <<now, users_by_email, users_by_username, attempts, guardOn, history, kept,
                       aggregate, in_flight>>

Next ==
    \/ Tick(CoarseInstants)
    \/ Register(BasicRegisterRequests)
    \/ Login
    \/ RefreshToken
    \/ Suspend
    \/ UpdateRole
    \/ MarkEmailVerified

Spec == Init /\ [][Next]_vars

(***************************************************************************)
(* The token service on its own: tokens are issued for arbitrary           *)
(* arguments, time passes, and what the client presents is verified        *)
(***************************************************************************)
\* the claims TokenService itself writes into an access token
ReservedClaims == {"sub", "email", "role", "permissions", "type", "exp", "iat", "jti"}

\* additional_claims as AzureADLoginUseCase passes them
AzureClaims == [azure_ad_id |-> "aad-1", auth_method |-> "azure_ad"]

AdditionalClaimsInputs == {Null, EmptyDict, AzureClaims, [type |-> "refresh"]}

IssueArguments ==
    { [user_id |-> who[1], email |-> who[2], role |-> role, permissions |-> permissions,
       remember_me |-> remember_me, additional_claims |-> additional_claims] :
        who \in {<<"u1", EmailA>>, <<"u2", EmailC>>},
        role \in Roles,
        permissions \in {<<"read:public", "read:profile">>, <<"use:chat">>},
        remember_me \in BOOLEAN,
        additional_claims \in AdditionalClaimsInputs }

\* a call of TokenService.generate_tokens by a client that holds no token yet;
\* the client keeps one of the tokens
IssueTokens ==
    \E a \in IssueArguments : \E jti_a \in JtiIds : \E jti_r \in JtiIds \ {jti_a} :
        LET result == generate_tokens(a.user_id, a.email, a.role, a.permissions,
                                      a.remember_me, a.additional_claims, now, jti_a, jti_r)
        IN  /\ kept = Null
            /\ kept' \in TokensIn(result, {"access_token", "refresh_token"})
            /\ last' = [op |-> "generate_tokens", args |-> a, result |-> result]
            /\ UNCHANGED <<now, users_by_id, users_by_email, users_by_username, attempts, guardOn, history,
                           aggregate, in_flight>>

\* a call of TokenService.verify_token
VerifyToken ==
    \E token \in Presentable :
        /\ last' = [op |-> "verify_token", token |-> token, result |-> verify_token(token, now)]
        /\ UNCHANGED <<now, users_by_id, users_by_email, users_by_username, attempts, guardOn, history, kept,
                       aggregate, in_flight>>

\* a call of TokenService.verify_refresh_token
VerifyRefreshToken ==
    \E token \in Presentable :
        /\ last' = [op |-> "verify_refresh_token", token |-> token,
                    result |-> verify_refresh_token(token, now)]
        /\ UNCHANGED <<now, users_by_id, users_by_email, users_by_username, attempts, guardOn, history, kept,
                       aggregate, in_flight>>

NextToken ==
    \/ Tick(Instants)
    \/ IssueTokens
    \/ VerifyToken
    \/ VerifyRefreshToken

SpecToken == Init /\ [][NextToken]_vars

(***************************************************************************)
(* Registration alone: RegisterUseCase.execute served for requests of      *)
(* every shape, well-formed or not                                         *)
(***************************************************************************)
NextRegister ==
    \/ Register(AllRegisterRequests)

SpecRegister == Init /\ [][NextRegister]_vars

(***************************************************************************)
(* The aggregate alone: one UserAggregate is registered, authenticates,    *)
(* and has its role, permissions and sessions worked on as time passes     *)
(***************************************************************************)
\* the sessions one aggregate is given, and the permissions granted to it on
\* top of its defaults
MaxSessions == 2
MaxGrants == 1

\* the users who act on the aggregate's user: an active admin, a suspended
\* admin, a pending admin, an active user of role user, and the user itself
SuspendedAdmin == [SeedAdmin EXCEPT !.id = "u7", !.status = "suspended"]
PendingAdmin == [SeedAdmin EXCEPT !.id = "u8", !.status = "pending"]
OtherUser == [SeedAdmin EXCEPT !.id = "u9", !.role = "user",
                               !.permissions = User_get_default_permissions("user")]
Actors == {SeedAdmin, SuspendedAdmin, PendingAdmin, OtherUser, aggregate.user}

AggregateInstants == {0, DaySeconds, DaySeconds + 1}

AggregateUnchanged ==
    UNCHANGED <<now, users_by_id, users_by_email, users_by_username, attempts, guardOn, history,
                kept, in_flight>>

\* the value of aggregate after an operation that returned r or raised
Kept(r) == IF IsRaised(r) THEN aggregate ELSE r
Exc(r) == IF IsRaised(r) THEN r.raised ELSE ""

\* RegisterUserUseCase builds an aggregate and calls register_user on it
AggregateRegister ==
    /\ aggregate = Null
    /\ \E email \in {EmailA, EmailMalformed}, password \in {PasswordA, PasswordShort} :
          LET r == UserAggregate_register_user(email, password, FullNameAlice,
                                               UsernameAlice, "u1") IN
          /\ aggregate' = Kept(r)
          /\ last' = [op |-> "register_user", exc |-> Exc(r)]
    /\ AggregateUnchanged

\* a call of UserAggregate.authenticate
Authenticate ==
    /\ aggregate # Null
    /\ Len(aggregate.sessions) < MaxSessions
    /\ \E password \in {PasswordA, PasswordB} :
          LET r == UserAggregate_authenticate(aggregate, password, now,
                                              Len(aggregate.sessions) + 1) IN
          /\ aggregate' = Kept(r)
          /\ last' = [op |-> "authenticate", exc |-> Exc(r)]
    /\ AggregateUnchanged

\* a call of UserAggregate.update_role
AggregateUpdateRole ==
    /\ aggregate # Null
    /\ \E new_role \in Roles, updated_by \in Actors :
          LET r == UserAggregate_update_role(aggregate, new_role, updated_by) IN
          /\ aggregate' = Kept(r)
          /\ last' = [op |-> "aggregate_update_role", before |-> aggregate,
                      new_role |-> new_role, actor |-> updated_by, exc |-> Exc(r)]
    /\ AggregateUnchanged

\* a call of UserAggregate.add_permission
AggregateAddPermission ==
    /\ aggregate # Null
    /\ Len(aggregate.permissions) < Len(get_default_permissions("user")) + MaxGrants
    /\ \E scope \in {"analytics", "files"} :
          LET r == UserAggregate_add_permission(aggregate, "export:analytics", "read", scope) IN
          /\ aggregate' = Kept(r)
          /\ last' = [op |-> "aggregate_add_permission", exc |-> Exc(r)]
    /\ AggregateUnchanged

\* a call of UserAggregate.remove_permission
AggregateRemovePermission ==
    /\ aggregate # Null
    /\ \E name \in {"use:chat", "export:analytics"} :
          /\ aggregate' = UserAggregate_remove_permission(aggregate, name)
          /\ last' = [op |-> "aggregate_remove_permission", exc |-> ""]
    /\ AggregateUnchanged

\* a call of Permission.extend on one of the aggregate's permissions, none of
\* which has an expiry yet
ExtendPermission ==
    /\ aggregate # Null
    /\ \A i \in DOMAIN aggregate.permissions : aggregate.permissions[i].expires_at = NoTime
    /\ \E i \in DOMAIN aggregate.permissions :
          \E r \in Permission_extend(aggregate.permissions[i], 1, now) :
              /\ aggregate' = IF IsRaised(r) THEN aggregate
                              ELSE [aggregate EXCEPT !.permissions[i] = r]
              /\ last' = [op |-> "extend", exc |-> Exc(r)]
    /\ AggregateUnchanged

\* a call of UserAggregate.invalidate_session
InvalidateSession ==
    /\ aggregate # Null
    /\ \E session_id \in 1..MaxSessions :
          /\ aggregate' = UserAggregate_invalidate_session(aggregate, session_id)
          /\ last' = [op |-> "invalidate_session", exc |-> ""]
    /\ AggregateUnchanged

\* the aggregate is used where no login use case, and so no guard, is set up
InitAggregate == Init /\ ~guardOn

NextAggregate ==
    \/ Tick(AggregateInstants)
    \/ AggregateRegister
    \/ Authenticate
    \/ AggregateUpdateRole
    \/ AggregateAddPermission
    \/ InvalidateSession

SpecAggregate == InitAggregate /\ [][NextAggregate]_vars

(***************************************************************************)
(* The aggregate's permissions and sessions as time passes and expiries    *)
(* are reached                                                             *)
(***************************************************************************)
NextValidity ==
    \/ Tick(AggregateInstants)
    \/ AggregateRegister
    \/ Authenticate
    \/ AggregateRemovePermission
    \/ ExtendPermission
    \/ InvalidateSession

SpecValidity == InitAggregate /\ [][NextValidity]_vars

(***************************************************************************)
(* The User entity's own role, grant and suspension operations, applied to *)
(* the aggregate's user by every kind of actor                             *)
(***************************************************************************)
\* the value of aggregate.user after an operation that returned r or raised
KeptUser(r) == IF IsRaised(r) THEN aggregate ELSE [aggregate EXCEPT !.user = r]

\* a call of User.update_role
EntityUpdateRole ==
    /\ aggregate # Null
    /\ \E new_role \in Roles, updated_by \in Actors :
          LET r == User_update_role(aggregate.user, new_role, updated_by) IN
          /\ aggregate' = KeptUser(r)
          /\ last' = [op |-> "update_role", before |-> aggregate.user,
                      actor |-> updated_by, exc |-> Exc(r)]
    /\ AggregateUnchanged

\* a call of User.add_permission
EntityAddPermission ==
    /\ aggregate # Null
    /\ \E permission \in {"manage:users", "use:chat"}, granted_by \in Actors :
          LET r == User_add_permission(aggregate.user, permission, granted_by) IN
          /\ aggregate' = KeptUser(r)
          /\ last' = [op |-> "add_permission", before |-> aggregate.user,
                      actor |-> granted_by, exc |-> Exc(r)]
    /\ AggregateUnchanged

\* a call of User.remove_permission
EntityRemovePermission ==
    /\ aggregate # Null
    /\ \E permission \in {"manage:users", "use:chat"}, revoked_by \in Actors :
          LET r == User_remove_permission(aggregate.user, permission, revoked_by) IN
          /\ aggregate' = KeptUser(r)
          /\ last' = [op |-> "remove_permission", before |-> aggregate.user,
                      actor |-> revoked_by, exc |-> Exc(r)]
    /\ AggregateUnchanged

\* a call of User.suspend
EntitySuspend ==
    /\ aggregate # Null
    /\ \E suspended_by \in Actors :
          LET r == User_suspend(aggregate.user, suspended_by) IN
          /\ aggregate' = KeptUser(r)
          /\ last' = [op |-> "suspend", before |-> aggregate.user,
                      actor |-> suspended_by, exc |-> Exc(r)]
    /\ AggregateUnchanged

NextEntity ==
    \/ AggregateRegister
    \/ EntityUpdateRole
    \/ EntityAddPermission
    \/ EntityRemovePermission
    \/ EntitySuspend

SpecEntity == InitAggregate /\ [][NextEntity]_vars

(***************************************************************************)
(* Access: a user logs in, keeps the token, and presents it to endpoints   *)
(* guarded by require_roles and require_permissions, while an admin may    *)
(* change the user's role in between                                       *)
(***************************************************************************)
\* the Authorization headers a client sends
Headers ==
    {Null} \cup { [scheme |-> sch, token |-> tok] :
                    sch \in {"Bearer", "Basic"}, tok \in Presentable }

RequiredRoles == { {"user"}, {"admin"}, {"viewer", "admin"} }
RequiredPermissions == { {"read:documents"}, {"read:documents", "write:documents"} }

\* a request to an endpoint guarded by require_roles or require_permissions
Request ==
    /\ \E authorization \in Headers :
         \/ \E roles \in RequiredRoles :
               last' = [op |-> "request", kind |-> "roles", required |-> roles,
                        authorization |-> authorization,
                        result |-> require_roles(roles, get_current_user(authorization, now))]
         \/ \E permissions \in RequiredPermissions :
               last' = [op |-> "request", kind |-> "permissions", required |-> permissions,
                        authorization |-> authorization,
                        result |-> require_permissions(permissions,
                                       get_current_user(authorization, now))]
    /\ UNCHANGED <<now, users_by_id, users_by_email, users_by_username, attempts, guardOn, history,
                   kept, aggregate, in_flight>>

NextAccess ==
    \/ Register(BasicRegisterRequests)
    \/ MarkEmailVerified
    \/ Login
    \/ UpdateRole
    \/ Request

SpecAccess == InitAggregate /\ [][NextAccess]_vars

(***************************************************************************)
(* Concurrent logins: several LoginUseCase.execute calls for one email run *)
(* as coroutines of one event loop, which may switch between them at each  *)
(* await of a guard call.  The guard's own operations are atomic.          *)
(***************************************************************************)
\* one call more than the guard lets fail
LoginCalls == 1..(AttemptsLimit + 1)

\* logins for the seeded administrator, whose stored hash no password matches
ConcurrentLoginRequests == { LoginRequest(AdminEmail, PasswordA, FALSE) }

InitGuarded == Init /\ guardOn

ConcurrentUnchanged == UNCHANGED <<now, guardOn, history, kept, aggregate>>

\* a call starts: the email is parsed and the guard is asked (login.py:54-62)
LoginBegin ==
    \E c \in LoginCalls \ DOMAIN in_flight : \E request \in ConcurrentLoginRequests :
        LET email == Email(request.email)
            exc == IF ~email.ok THEN "InvalidCredentialsError"
                   ELSE IF guardOn /\ is_blocked(email.value) THEN "LoginError"
                   ELSE ""
        IN  /\ in_flight' = Update(in_flight,
                   [k \in {c} |-> [pc |-> IF exc = "" THEN "lookup" ELSE "done",
                                   request |-> request, exc |-> exc, verified |-> FALSE]])
            /\ last' = [op |-> "login_begin", call |-> c]
            /\ UNCHANGED <<attempts>>
            /\ DirectoryUnchanged
            /\ ConcurrentUnchanged

\* the call goes on after the guard's answer: lookup, password verification,
\* status checks, token issue and save (login.py:64-97); what is left is the
\* guard call that follows
LoginProceed ==
    \E c \in DOMAIN in_flight :
        /\ in_flight[c].pc = "lookup"
        /\ LET request == in_flight[c].request
               email == Email(request.email)
               user == find_by_email(email.value)
               out == IF user = Null
                      THEN [Outcome("InvalidCredentialsError", NotFoundMessage, "not_found", <<>>)
                            EXCEPT !.failed = guardOn, !.email = email.value]
                      ELSE LoginAuthenticate(request, email.value, user, <<>>)
           IN  /\ IF out.saved # Null THEN SaveUser(out.saved) ELSE DirectoryUnchanged
               /\ in_flight' = [in_flight EXCEPT ![c] =
                      [pc |-> IF out.failed THEN "record"
                              ELSE IF out.cleared THEN "clear" ELSE "done",
                       request |-> request, exc |-> out.exc, verified |-> user # Null]]
               /\ last' = [op |-> "login_proceed", call |-> c]
        /\ UNCHANGED <<attempts>>
        /\ ConcurrentUnchanged

\* the guard call the failing or succeeding login ends with (login.py:66-67,
\* 74-75, 99-100)
LoginFinish ==
    \E c \in DOMAIN in_flight :
        /\ in_flight[c].pc \in {"record", "clear"}
        /\ attempts' = IF in_flight[c].pc = "record"
                       THEN record_failed_attempt(Email(in_flight[c].request.email).value)
                       ELSE clear_attempts(Email(in_flight[c].request.email).value)
        /\ in_flight' = [in_flight EXCEPT ![c].pc = "done"]
        /\ last' = [op |-> "login_finish", call |-> c]
        /\ DirectoryUnchanged
        /\ ConcurrentUnchanged

NextConcurrent ==
    \/ LoginBegin
    \/ LoginProceed
    \/ LoginFinish

SpecConcurrent == InitGuarded /\ [][NextConcurrent]_vars

(***************************************************************************)
(* Registration followed by login: users register, their email gets        *)
(* verified, and they log in; nobody's role or status is changed by        *)
(* another user                                                            *)
(***************************************************************************)
ScenarioRegisterRequests ==
    { RegisterRequest(e, u, FullNameAlice, PasswordA, PasswordA) :
        e \in {EmailA, EmailC}, u \in {UsernameAlice, UsernameBob} }

NextScenario ==
    \/ Register(ScenarioRegisterRequests)
    \/ MarkEmailVerified
    \/ Login

SpecScenario == Init /\ [][NextScenario]_vars

(***************************************************************************)
(* Suspension of the aggregate: it is registered, authenticates, and is    *)
(* suspended with or without an actor                                      *)
(***************************************************************************)
\* a call of UserAggregate.suspend_account
AggregateSuspend ==
    /\ aggregate # Null
    /\ \E suspended_by \in Actors \cup {Null} :
          LET r == UserAggregate_suspend_account(aggregate, suspended_by, "u6") IN
          /\ aggregate' = Kept(r)
          /\ last' = [op |-> "suspend_account", before |-> aggregate,
                      actor |-> suspended_by, exc |-> Exc(r)]
    /\ AggregateUnchanged

NextSuspend ==
    \/ Tick(AggregateInstants)
    \/ AggregateRegister
    \/ Authenticate
    \/ InvalidateSession
    \/ AggregateSuspend

SpecSuspend == InitAggregate /\ [][NextSuspend]_vars

(***************************************************************************)
(* Matching: the aggregate's permissions, some of them granted for one     *)
(* resource, extended or deactivated, are matched against requirements as  *)
(* time passes                                                             *)
(***************************************************************************)
Resources == {"doc1", "doc2"}

\* the name, type and scope asked for: those of a default permission, and
\* the same with one of the three changed
Requirements ==
    { <<"read:documents", "read", "documents">>, <<"use:chat", "read", "documents">>,
      <<"read:documents", "write", "documents">>, <<"read:documents", "read", "chat">> }

\* a permission built by Permission.create for a resource, or for none, is
\* put on the aggregate's list
GrantForResource ==
    /\ aggregate # Null
    /\ Len(aggregate.permissions) < Len(get_default_permissions("user")) + MaxGrants
    /\ \E resource \in {NoResource, "doc1"} :
          /\ aggregate' = [aggregate EXCEPT !.permissions =
                              Append(@, Permission_create(aggregate.user.id, "read:documents",
                                                          "read", "documents", resource))]
          /\ last' = [op |-> "grant", exc |-> ""]
    /\ AggregateUnchanged

\* a call of Permission.deactivate on the last of the aggregate's permissions
DeactivatePermission ==
    /\ aggregate # Null
    /\ \E i \in {Len(aggregate.permissions)} :
          /\ aggregate.permissions[i].is_active
          /\ aggregate' = [aggregate EXCEPT !.permissions[i] = Permission_deactivate(@)]
          /\ last' = [op |-> "deactivate", exc |-> ""]
    /\ AggregateUnchanged

\* a call of Permission.matches on one of the aggregate's permissions
Matches ==
    /\ aggregate # Null
    /\ \E i \in DOMAIN aggregate.permissions :
          \E required \in Requirements, resource \in Resources \cup {NoResource} :
              last' = [op |-> "matches", permission |-> aggregate.permissions[i],
                       name |-> required[1], type |-> required[2], scope |-> required[3],
                       resource |-> resource,
                       result |-> Permission_matches(aggregate.permissions[i], required[1],
                                                     required[2], required[3], resource, now)]
    /\ UNCHANGED aggregate
    /\ AggregateUnchanged

NextMatches ==
    \/ Tick(AggregateInstants)
    \/ AggregateRegister
    \/ GrantForResource
    \/ ExtendPermission
    \/ DeactivatePermission
    \/ Matches

SpecMatches == InitAggregate /\ [][NextMatches]_vars

(***************************************************************************)
(* The login endpoint: users register, get verified, and log in through    *)
(* POST /login of a deployment whose settings give the access-token        *)
(* lifetime                                                                *)
(***************************************************************************)
\* the access-token lifetimes a deployment configures, in minutes
Lifetimes == {15, ACCESS_TOKEN_EXPIRE_MINUTES, 60}

\* a call of the endpoint login_user; it builds its use case without a guard
LoginEndpoint ==
    /\ ~guardOn
    /\ \E minutes \in Lifetimes, request \in LoginRequests :
          LET token_service == TokenService(minutes, REFRESH_TOKEN_EXPIRE_DAYS)
              out == LoginUseCase_execute_with(token_service, request)
          IN  /\ IF out.saved # Null THEN SaveUser(out.saved) ELSE DirectoryUnchanged
              /\ last' = [op |-> "login_user", minutes |-> minutes, request |-> request,
                          out |-> out,
                          response |-> IF out.exc = "" THEN login_user(out.response) ELSE Null]
    /\ UNCHANGED <<now, attempts, guardOn, history, kept, aggregate, in_flight>>

NextEndpoint ==
    \/ Tick(CoarseInstants)
    \/ Register(BasicRegisterRequests)
    \/ MarkEmailVerified
    \/ LoginEndpoint

SpecEndpoint == InitAggregate /\ [][NextEndpoint]_vars

(***************************************************************************)
(* Concurrent registrations: several RegisterUseCase.execute calls run as  *)
(* coroutines of one event loop.  Each await of a directory call is a      *)
(* point where the loop may switch, as it does with                        *)
(* SQLAlchemyUserRepository, whose calls wait for the database; the        *)
(* directory's content is kept in the three dictionaries.                  *)
(***************************************************************************)
\* the calls that run at the same time
MaxCalls == 2
RegisterCalls == 1..MaxCalls

\* the cases of RegisterUseCase.execute that end before the directory is asked
FormatPaths == {"email_format", "password_confirm", "password_policy", "username", "full_name"}

ConcurrentRegisterRequests ==
    ScenarioRegisterRequests
    \cup { RegisterRequest(EmailA, UsernameShort, FullNameAlice, PasswordA, PasswordA) }

RegisterUnchanged == UNCHANGED <<now, attempts, guardOn, history, kept, aggregate>>

\* a call starts: the checks of the request's format (register.py:61-90)
RegisterBegin ==
    \E c \in RegisterCalls \ DOMAIN in_flight : \E request \in ConcurrentRegisterRequests :
        LET out == RegisterUseCase_execute(request, "u1") IN
        /\ in_flight' = Update(in_flight,
               [k \in {c} |-> IF out.path \in FormatPaths
                              THEN [pc |-> "done", request |-> request, exc |-> out.exc]
                              ELSE [pc |-> "exists_by_email", request |-> request, exc |-> ""]])
        /\ last' = [op |-> "register_begin", call |-> c]
        /\ DirectoryUnchanged
        /\ RegisterUnchanged

\* the directory answers exists_by_email (register.py:92-93)
RegisterExistsByEmail ==
    \E c \in DOMAIN in_flight :
        /\ in_flight[c].pc = "exists_by_email"
        /\ in_flight' = [in_flight EXCEPT ![c] =
               IF exists_by_email(Email(in_flight[c].request.email).value)
               THEN [@ EXCEPT !.pc = "done", !.exc = "EmailAlreadyExistsError"]
               ELSE [@ EXCEPT !.pc = "exists_by_username"]]
        /\ last' = [op |-> "register_exists_by_email", call |-> c]
        /\ DirectoryUnchanged
        /\ RegisterUnchanged

\* the directory answers exists_by_username (register.py:95-96)
RegisterExistsByUsername ==
    \E c \in DOMAIN in_flight :
        /\ in_flight[c].pc = "exists_by_username"
        /\ in_flight' = [in_flight EXCEPT ![c] =
               IF exists_by_username(Lower(in_flight[c].request.username))
               THEN [@ EXCEPT !.pc = "done", !.exc = "UsernameAlreadyExistsError"]
               ELSE [@ EXCEPT !.pc = "save"]]
        /\ last' = [op |-> "register_exists_by_username", call |-> c]
        /\ DirectoryUnchanged
        /\ RegisterUnchanged

\* the password is hashed, the user is created and saved (register.py:98-115).
\* SQLAlchemyUserRepository.save adds a row for the new id and commits.  The
\* table's definition decides what the commit does with a second row of the
\* same email or username: it is stored, or the commit raises IntegrityError.
RegisterSave ==
    \E c \in DOMAIN in_flight :
        /\ in_flight[c].pc = "save"
        /\ LET request == in_flight[c].request
               new_id == CHOOSE id \in UserIds : id \notin DOMAIN users_by_id
               user == User_create(new_id, Email(request.email).value, request.username,
                                   request.full_name,
                                   PasswordService_hash(Password(request.password).value),
                                   DefaultRole)
               duplicate == \E id \in DOMAIN users_by_id :
                               \/ users_by_id[id].email = user.email
                               \/ users_by_id[id].username = user.username
           IN  \/ /\ SaveUser(user)
                  /\ in_flight' = [in_flight EXCEPT ![c].pc = "done"]
               \/ /\ duplicate
                  /\ DirectoryUnchanged
                  /\ in_flight' = [in_flight EXCEPT ![c].pc = "done",
                                                    ![c].exc = "IntegrityError"]
        /\ last' = [op |-> "register_save", call |-> c]
        /\ RegisterUnchanged

NextConcurrentRegister ==
    \/ RegisterBegin
    \/ RegisterExistsByEmail
    \/ RegisterExistsByUsername
    \/ RegisterSave

SpecConcurrentRegister == InitAggregate /\ [][NextConcurrentRegister]_vars

(***************************************************************************)
(* A login in flight while the user is suspended or given another role:    *)
(* LoginUseCase.execute works on the User it loaded at find_by_email and   *)
(* writes it back at save, and the event loop may run other requests       *)
(* between the two awaits                                                  *)
(***************************************************************************)
InFlightLoginRequests ==
    { LoginRequest(EmailAtyped, p, FALSE) : p \in {PasswordA, PasswordB} }

\* a call starts and runs up to its await of save (login.py:54-97): the user
\* it is about to save is the one it loaded, activated if need be, with the
\* last login set.  A call that raises ends here.
LoginLoad ==
    \E c \in (1..MaxCalls) \ DOMAIN in_flight : \E request \in InFlightLoginRequests :
        LET out == LoginUseCase_execute(request) IN
        /\ in_flight' = IF out.saved = Null THEN in_flight
                        ELSE Update(in_flight,
                                    [k \in {c} |-> [pc |-> "save", request |-> request,
                                                    exc |-> "", user |-> out.saved]])
        /\ last' = [op |-> "login_load", call |-> c, exc |-> out.exc]
        /\ DirectoryUnchanged
        /\ UNCHANGED <<now, attempts, guardOn, history, kept, aggregate>>

\* the save the call was waiting for (login.py:97): SQLAlchemyUserRepository
\* .save finds the row of the user's id and _update_model overwrites its
\* columns, status, role and permissions included, with the call's User
LoginSave ==
    \E c \in DOMAIN in_flight :
        /\ in_flight[c].pc = "save"
        /\ SaveUser(in_flight[c].user)
        /\ in_flight' = [k \in DOMAIN in_flight \ {c} |-> in_flight[k]]
        /\ last' = [op |-> "login_save", call |-> c, user_id |-> in_flight[c].user.id]
        /\ UNCHANGED <<now, attempts, guardOn, history, kept, aggregate>>

NextInFlight ==
    \/ Register(BasicRegisterRequests)
    \/ MarkEmailVerified
    \/ LoginLoad
    \/ LoginSave
    \/ Suspend
    \/ UpdateRole

SpecInFlight == InitAggregate /\ [][NextInFlight]_vars

(***************************************************************************)
(* Authentication of requests: a user logs in and keeps the access token;  *)
(* later requests present what was kept, while the user may have been      *)
(* suspended in between                                                    *)
(***************************************************************************)
\* what a client presents is given to LoginUseCase.validate_token and, as a
\* Bearer header, to the dependency get_current_user
AuthenticateRequest ==
    /\ \E token \in Presentable :
          last' = [op |-> "authenticate", token |-> token,
                   validated |-> LoginUseCase_validate_token(token),
                   current_user |-> get_current_user([scheme |-> "Bearer", token |-> token],
                                                     now)]
    /\ UNCHANGED <<now, users_by_id, users_by_email, users_by_username, attempts, guardOn, history,
                   kept, aggregate, in_flight>>

NextAuthenticated ==
    \/ Tick(Instants)
    \/ Register(BasicRegisterRequests)
    \/ MarkEmailVerified
    \/ Login
    \/ Suspend
    \/ AuthenticateRequest

SpecAuthenticated == InitAggregate /\ [][NextAuthenticated]_vars

(***************************************************************************)
(* The lifecycle of the directory's users: they register, verify their     *)
(* email, log in, and are suspended                                        *)
(***************************************************************************)
\* a call of RegisterUseCase.verify_email with a token the email service
\* resolves to a stored user, to a user that is not stored, or to nothing
VerifyEmail ==
    \E email_service \in BOOLEAN, user_id \in DOMAIN users_by_id \cup {"u-gone", ""} :
        LET user == RegisterUseCase_verify_email(email_service, user_id) IN
        /\ IF IsRaised(user) THEN DirectoryUnchanged ELSE SaveUser(user)
        /\ last' = [op |-> "verify_email", user_id |-> user_id,
                    exc |-> IF IsRaised(user) THEN user.raised ELSE ""]
        /\ UNCHANGED <<now, attempts, guardOn, history, kept, aggregate, in_flight>>

NextLifecycle ==
    \/ Register(BasicRegisterRequests)
    \/ VerifyEmail
    \/ MarkEmailVerified
    \/ Login
    \/ Suspend

SpecLifecycle == InitAggregate /\ [][NextLifecycle]_vars

(***************************************************************************)
(* The use cases that issue tokens: LoginUseCase, AzureADLoginUseCase over *)
(* the directory, LoginUserUseCase over the aggregate.  Of the Azure AD    *)
(* user the fields execute reads are kept; department, phone and metadata  *)
(* are not part of the model's user.                                       *)
(***************************************************************************)
\* sub in s, for texts
ContainsText(s, sub) ==
    \E i \in 1..(Len(s) - Len(sub) + 1) : SubSeq(s, i, i + Len(sub) - 1) = sub

AdminIndicator == <<"a","d","m","i","n">>

\* AzureADLoginUseCase._determine_user_role: every indicator contains "admin"
AzureADLoginUseCase_determine_user_role(azure_ad_user) ==
    IF azure_ad_user.job_title # <<>>
       /\ ContainsText(Lower(azure_ad_user.job_title), AdminIndicator)
    THEN "admin"
    ELSE "user"

\* the hashed_password of a user created from Azure AD: the empty text
NoPasswordHash == [wellformed |-> FALSE, of |-> <<>>]

\* AzureADLoginUseCase._create_user_from_azure_ad; new_id is the uuid4 drawn
AzureADLoginUseCase_create_user_from_azure_ad(azure_ad_user, new_id) ==
    LET user == User_create(new_id, azure_ad_user.mail, BeforeAt(azure_ad_user.mail),
                            IF azure_ad_user.display_name # <<>>
                            THEN azure_ad_user.display_name
                            ELSE azure_ad_user.given_name \o <<" ">> \o azure_ad_user.surname,
                            NoPasswordHash,
                            AzureADLoginUseCase_determine_user_role(azure_ad_user))
    IN  User_activate([user EXCEPT !.email_verified = TRUE])

\* AzureADLoginUseCase._update_existing_user
AzureADLoginUseCase_update_existing_user(existing_user, azure_ad_user) ==
    LET named == [existing_user EXCEPT
                    !.full_name = IF azure_ad_user.display_name # <<>>
                                  THEN azure_ad_user.display_name
                                  ELSE existing_user.full_name]
    IN  IF named.status = "pending" THEN User_activate(named) ELSE named

\* AzureADLoginUseCase.execute at time now, for the user information the
\* adapter returned; new_id is the uuid4 drawn if a user is created
AzureADLoginUseCase_execute(azure_ad_user, new_id) ==
    LET email_value_object == Email(azure_ad_user.mail) IN
    IF ~email_value_object.ok
    THEN Outcome("ValueError", email_value_object.err, "email_invalid", <<>>)
    ELSE
    LET existing_user == find_by_email(email_value_object.value)
        user == IF existing_user # Null
                THEN AzureADLoginUseCase_update_existing_user(existing_user, azure_ad_user)
                ELSE AzureADLoginUseCase_create_user_from_azure_ad(azure_ad_user, new_id)
    IN
    IF IsRaised(user)
    THEN Outcome(user.raised, NoMsg, "update_refused", <<"find_by_email">>)
    ELSE
    LET saved == User_update_last_login(user, now)
        jwt_tokens == generate_tokens(saved.id, saved.email, saved.role, saved.permissions,
                                      TRUE,
                                      [k \in {"azure_ad_id", "auth_method"} |->
                                          IF k = "azure_ad_id" THEN azure_ad_user.id
                                          ELSE "azure_ad"],
                                      now, "jti1", "jti1")
    IN  [Outcome("", NoMsg, IF existing_user # Null THEN "existing_user" ELSE "new_user",
                 <<"find_by_email", "save", "generate_tokens">>)
         EXCEPT !.saved = saved, !.email = email_value_object.value,
                !.token_data = jwt_tokens,
                !.response = [user |-> saved,
                              access_token |-> jwt_tokens["access_token"],
                              refresh_token |-> jwt_tokens["refresh_token"],
                              expires_at |-> jwt_tokens["expires_at"]]]

\* the text a password hash is stored as in a user of the aggregate, and the
\* hash a stored text stands for: passlib's hashes begin with "$", and text
\* that is no hash makes pwd_context.verify raise
HashText(hashed_password) == <<"$">> \o hashed_password.of

HashOfText(stored) ==
    IF stored # <<>> /\ Head(stored) = "$"
    THEN [wellformed |-> TRUE, of |-> Tail(stored)]
    ELSE [wellformed |-> FALSE, of |-> <<>>]

\* SQLAlchemyUserAggregateRepository.find_aggregate_by_email
find_aggregate_by_email(email) ==
    IF aggregate # Null /\ aggregate.user.email = Lower(email) THEN aggregate ELSE Null

\* RegisterUserUseCase.execute: the aggregate saved, or the ValueError raised
RegisterUserUseCase_execute(email, password, full_name, username, new_id) ==
    IF find_aggregate_by_email(email) # Null THEN Raised("ValueError")
    ELSE UserAggregate_register_user(email, HashText(PasswordService_hash(password)),
                                     full_name, username, new_id)

\* LoginUserUseCase.execute at time now; sid is the uuid4 of the new session
LoginUserUseCase_execute(email, password, remember_me, sid) ==
    LET found == find_aggregate_by_email(email) IN
    IF found = Null
    THEN Outcome("ValueError", Msg("Invalid credentials", <<>>), "not_found",
                 <<"find_aggregate_by_email">>)
    ELSE IF ~PasswordService_verify(password, HashOfText(found.user.hashed_password))
    THEN Outcome("ValueError", Msg("Invalid credentials", <<>>), "bad_password",
                 <<"find_aggregate_by_email", "verify">>)
    ELSE IF ~User_is_active(found.user)
    THEN Outcome("ValueError", Msg("Account is not active", <<>>), "not_active",
                 <<"find_aggregate_by_email", "verify">>)
    ELSE
    LET authenticated == UserAggregate_authenticate(found, password, now, sid) IN
    IF IsRaised(authenticated)
    THEN Outcome(authenticated.raised, Msg("Invalid credentials", <<>>), "authenticate_refused",
                 <<"find_aggregate_by_email", "verify", "authenticate">>)
    ELSE
    LET valid == SelectSeq(authenticated.permissions, LAMBDA p : Permission_is_valid(p, now))
        tokens == generate_tokens(authenticated.user.id, authenticated.user.email,
                                  authenticated.user.role, Names(valid), remember_me, Null,
                                  now, "jti1", "jti1")
    IN  [Outcome("", NoMsg, "logged_in",
                 <<"find_aggregate_by_email", "verify", "authenticate", "generate_tokens",
                   "save_aggregate">>)
         EXCEPT !.saved = authenticated, !.token_data = tokens,
                !.response = [user |-> authenticated.user, tokens |-> tokens]]

AzureADUserInfo(id, mail, display_name, job_title) ==
    [id |-> id, mail |-> mail, display_name |-> display_name, given_name |-> <<"C">>,
     surname |-> <<"D">>, job_title |-> job_title]

\* what the adapter may return: the registered user's address, or one the
\* directory has not seen, without a display name and with a job title
\* naming an administrator
AzureADUsers ==
    { AzureADUserInfo("az1", EmailA, FullNameAlice, <<>>),
      AzureADUserInfo("az2", EmailC, <<>>, <<"I","T"," ","A","d","m","i","n">>) }

\* a call of AzureADLoginUseCase.execute
AzureADLogin ==
    /\ UserIds \ DOMAIN users_by_id # {}
    /\ \E azure_ad_user \in AzureADUsers :
          LET new_id == CHOOSE id \in UserIds : id \notin DOMAIN users_by_id
              out == AzureADLoginUseCase_execute(azure_ad_user, new_id)
          IN  /\ IF out.saved # Null THEN SaveUser(out.saved) ELSE DirectoryUnchanged
              /\ kept' \in {kept} \cup (IF out.response = Null THEN {}
                                        ELSE {out.response.access_token,
                                              out.response.refresh_token})
              /\ last' = [op |-> "azure_ad_login", azure_ad_user |-> azure_ad_user,
                          out |-> out]
    /\ UNCHANGED <<now, attempts, guardOn, history, aggregate, in_flight>>

\* a call of RegisterUserUseCase.execute
RegisterUser ==
    /\ LET r == RegisterUserUseCase_execute(EmailA, PasswordA, FullNameAlice,
                                            UsernameAlice, "u1") IN
       /\ aggregate' = Kept(r)
       /\ last' = [op |-> "register_user", exc |-> Exc(r)]
    /\ AggregateUnchanged

\* a call of LoginUserUseCase.execute, with the password registered, the text
\* stored for it, or another
LoginUser ==
    /\ \E email \in {EmailA, EmailC},
          password \in {PasswordA, PasswordB, HashText(PasswordService_hash(PasswordA))},
          remember_me \in BOOLEAN :
          LET out == LoginUserUseCase_execute(email, password, remember_me, 1) IN
          /\ aggregate' = IF out.saved # Null THEN out.saved ELSE aggregate
          /\ last' = [op |-> "login_user", email |-> email, password |-> password, out |-> out]
    /\ AggregateUnchanged

NextIssue ==
    \/ Register(BasicRegisterRequests)
    \/ MarkEmailVerified
    \/ Login
    \/ RefreshToken
    \/ Suspend
    \/ AzureADLogin
    \/ RegisterUser
    \/ AggregateSuspend
    \/ LoginUser

SpecIssue == InitAggregate /\ [][NextIssue]_vars

(***************************************************************************)
(* Revocation: a client logs in, uses the refresh token it kept again and  *)
(* again, and token ids are revoked in between.  history records which     *)
(* tokens were used with success and which ids revoke_token was called     *)
(* with; the service itself keeps nothing.                                 *)
(***************************************************************************)
\* TokenService.is_token_revoked as it would be if it looked the token id up
\* among those revoke_token was called with
is_token_revoked_listed(jti) == jti \in history.revoked

\* TokenService.is_token_revoked
is_token_revoked(jti) == FALSE

\* the token ids a caller may revoke: that of the token kept, and one no
\* token carries
Revocable ==
    (IF kept = Null THEN {} ELSE {Get(kept.claims, "jti", "")}) \cup {"jti-unknown"}

RevokeInstants == {0, RefreshSeconds, RefreshSeconds + 1}

\* a call of TokenService.revoke_token, whose body is `pass`, and then of
\* is_token_revoked for the same id
RevokeToken ==
    /\ \E jti \in Revocable :
          /\ history' = [history EXCEPT !.revoked = @ \cup {jti}]
          /\ last' = [op |-> "revoke_token", jti |-> jti,
                      is_revoked |-> is_token_revoked(jti)]
    /\ UNCHANGED <<now, users_by_id, users_by_email, users_by_username, attempts, guardOn,
                   kept, aggregate, in_flight>>

\* a call of LoginUseCase.refresh_token by a client that goes on holding the
\* token it presented
UseRefreshToken ==
    /\ \E token \in Presentable :
          LET out == LoginUseCase_refresh_token(token) IN
          /\ history' = IF out.exc = ""
                        THEN [history EXCEPT !.refreshed = @ \cup {token}]
                        ELSE history
          /\ last' = [op |-> "refresh_token", token |-> token, out |-> out,
                      used_before |-> token \in history.refreshed,
                      revoked_before |-> Get(token.claims, "jti", "") \in history.revoked]
    /\ UNCHANGED <<now, users_by_id, users_by_email, users_by_username, attempts, guardOn,
                   kept, aggregate, in_flight>>

NextRevoke ==
    \/ Tick(RevokeInstants)
    \/ Register(BasicRegisterRequests)
    \/ MarkEmailVerified
    \/ Login
    \/ Suspend
    \/ UseRefreshToken
    \/ RevokeToken

SpecRevoke == InitAggregate /\ [][NextRevoke]_vars

(***************************************************************************)
(* Properties                                                              *)
(***************************************************************************)
\* a token that is correctly signed, not expired at time t and of the given type
SignedUnexpiredOfType(token, type, t) ==
    /\ token.kind = "jwt"
    /\ token.sig = SECRET_KEY
    /\ "exp" \in DOMAIN token.claims /\ token.claims["exp"] >= t
    /\ "type" \in DOMAIN token.claims /\ token.claims["type"] = type

\* additional claims that name none of the claims the service writes itself
LeavesReservedClaims(additional_claims) ==
    additional_claims = Null \/ DOMAIN additional_claims \cap ReservedClaims = {}

LaterInstants == {t \in Instants : t >= now}

\* C1: verify_token returns claims exactly for a token that is correctly
\* signed, unexpired and of type "access", verify_refresh_token exactly for
\* one of type "refresh"; in every other case (wrong type, bad signature,
\* expired, text that is no token, no text) they return None and raise
\* nothing.  So a refresh token issued by generate_tokens is at no time
\* accepted by verify_token, a token carrying type "access" is at no time
\* accepted by verify_refresh_token, and neither is the access token of any
\* call whose additional claims leave the type claim alone.
C1_VerifyChecksType ==
    /\ last.op = "verify_token" =>
          /\ ~IsRaised(last.result)
          /\ (last.result # Null) <=> SignedUnexpiredOfType(last.token, "access", now)
    /\ last.op = "verify_refresh_token" =>
          /\ ~IsRaised(last.result)
          /\ (last.result # Null) <=> SignedUnexpiredOfType(last.token, "refresh", now)
    /\ last.op = "generate_tokens" =>
          \A t \in LaterInstants :
              /\ "refresh_token" \in DOMAIN last.result =>
                     verify_token(last.result["refresh_token"], t) = Null
              /\ (\/ last.result["access_token"].claims["type"] = "access"
                  \/ LeavesReservedClaims(last.args.additional_claims)) =>
                     verify_refresh_token(last.result["access_token"], t) = Null

\* C1 witness: an issued, correctly signed, unexpired access token was given
\* to verify_refresh_token, which returned None
C1_Witness ==
    /\ last.op = "verify_refresh_token"
    /\ last.token = kept
    /\ SignedUnexpiredOfType(kept, "access", now)
    /\ last.result = Null

\* C2: for every user id, email, role and permission list (and additional
\* claims that name no reserved claim), verify_token applied to the access
\* token generate_tokens returned gives claims with that subject, role and
\* permission list for as long as the token is unexpired, and
\* verify_refresh_token applied to the same token gives None.
C2_TokenRoundTrip ==
    (last.op = "generate_tokens" /\ LeavesReservedClaims(last.args.additional_claims)) =>
        \A t \in LaterInstants :
            LET access_token == last.result["access_token"]
                claims == verify_token(access_token, t)
            IN  /\ t <= now + AccessSeconds =>
                       /\ claims # Null
                       /\ claims.user_id = last.args.user_id
                       /\ claims.role = last.args.role
                       /\ claims.permissions = last.args.permissions
                /\ verify_refresh_token(access_token, t) = Null

\* C2 witness: tokens were issued for a viewer with a custom permission list
\* and Azure's additional claims
C2_Witness ==
    /\ last.op = "generate_tokens"
    /\ last.args.role = "viewer"
    /\ last.args.permissions = <<"use:chat">>
    /\ last.args.additional_claims = AzureClaims
    /\ verify_token(last.result["access_token"], now) # Null

\* C3: generate_tokens always returns an access token, and returns
\* refresh_token and refresh_expires_at exactly when remember_me is true; the
\* response of a login carries a refresh token exactly when the request set
\* remember_me.
C3_RefreshOnlyIfRememberMe ==
    /\ \A a \in IssueArguments :
          LET r == generate_tokens(a.user_id, a.email, a.role, a.permissions, a.remember_me,
                                   a.additional_claims, now, "jti1", "jti2")
          IN  /\ "access_token" \in DOMAIN r /\ r["access_token"].kind = "jwt"
              /\ ("refresh_token" \in DOMAIN r) <=> a.remember_me
              /\ ("refresh_expires_at" \in DOMAIN r) <=> a.remember_me
    /\ (last.op = "login" /\ last.out.exc = "") =>
          /\ last.out.response.access_token = last.out.token_data["access_token"]
          /\ ("refresh_token" \in DOMAIN last.out.token_data) <=> last.request.remember_me
          /\ (last.out.response.refresh_token # Null) <=> last.request.remember_me

\* C3 witness: a login with remember_me succeeded and returned a refresh token
C3_Witness ==
    /\ last.op = "login"
    /\ last.out.exc = ""
    /\ last.request.remember_me
    /\ last.out.response.refresh_token # Null
    /\ last.out.response.refresh_token.claims["type"] = "refresh"


(***************************************************************************)
(* Login                                                                   *)
(***************************************************************************)
\* what the directory and the guard hold about a login request before it is
\* served: whether its email parses, whether the guard blocks it, the account
\* stored under it, and whether its password is that account's
EmailParses(request) == Email(request.email).ok

Blocked(request) ==
    EmailParses(request) /\ guardOn /\ is_blocked(Email(request.email).value)

Account(request) ==
    IF EmailParses(request) THEN find_by_email(Email(request.email).value) ELSE Null

PasswordMatches(request) ==
    /\ Account(request) # Null
    /\ PasswordService_verify(request.password, Account(request).hashed_password)

ReachesLookup(request) == EmailParses(request) /\ ~Blocked(request)

\* C4: in every state of the directory, a login for an email with no account
\* and a login for an existing email with a wrong password (both reaching the
\* lookup, that is well-formed and not turned away by the attempts guard) end
\* alike: both raise InvalidCredentialsError, with the same message, and
\* return nothing.
C4_UnknownEmailLikeWrongPassword ==
    /\ \A r1, r2 \in LoginRequests :
          ( /\ ReachesLookup(r1) /\ Account(r1) = Null
            /\ ReachesLookup(r2) /\ Account(r2) # Null /\ ~PasswordMatches(r2) ) =>
              LET o1 == LoginUseCase_execute(r1)
                  o2 == LoginUseCase_execute(r2)
              IN  /\ o1.exc = "InvalidCredentialsError"
                  /\ o2.exc = "InvalidCredentialsError"
                  /\ o1.msg = o2.msg
                  /\ o1.response = Null /\ o2.response = Null
    /\ (last.op = "login" /\ last.out.path \in {"not_found", "bad_password"}) =>
          /\ last.out.exc = "InvalidCredentialsError"
          /\ last.out.msg = Msg("Invalid email or password", <<>>)

\* C4 witness: a login with a wrong password for a registered email has just
\* failed, while another email of the requests has no account
C4_Witness ==
    /\ last.op = "login"
    /\ Account(last.request) # Null /\ ~PasswordMatches(last.request)
    /\ last.out.exc = "InvalidCredentialsError"
    /\ \E r \in LoginRequests : ReachesLookup(r) /\ Account(r) = Null

\* C5: every InvalidCredentialsError raised by login carries the one message,
\* whether the email was malformed, unknown, or the password wrong.
C5_OneMessageForInvalidCredentials ==
    (last.op = "login" /\ last.out.exc = "InvalidCredentialsError") =>
        last.out.msg = Msg("Invalid email or password", <<>>)

\* C6: a login for an account whose status is suspended fails whatever the
\* password: it returns no response and no token, and the directory is left
\* as it was (status and last_login included).  With the correct password the
\* error is AccountNotActiveError, unless the attempts guard has blocked the
\* email, which is answered before the account is looked at (C8).
C6_SuspendedNeverLogsIn ==
    [][ last'.op = "login" =>
          LET request == last'.request
              out == last'.out
              user == Account(request)
          IN  (user # Null /\ user.status = "suspended") =>
                /\ out.exc # ""
                /\ out.response = Null /\ out.token_data = Null /\ out.saved = Null
                /\ kept' = kept
                /\ users_by_id' = users_by_id
                /\ users_by_email' = users_by_email
                /\ users_by_username' = users_by_username
                /\ (PasswordMatches(request) /\ ~Blocked(request)) =>
                       out.exc = "AccountNotActiveError"
      ]_vars

\* C6 witness: a login with the correct password for a suspended account has
\* just raised AccountNotActiveError
C6_Witness ==
    /\ last.op = "login"
    /\ PasswordMatches(last.request)
    /\ Account(last.request).status = "suspended"
    /\ last.out.exc = "AccountNotActiveError"

\* C7: a login with the correct password for a pending account whose email is
\* verified succeeds and leaves the account active in the directory; a login
\* with the correct password for an active account succeeds through the
\* active path and leaves it active; and no operation takes an active account
\* back to pending, so the pending check never applies to it again.  (Logins
\* here are those the attempts guard does not turn away.)
C7_PendingVerifiedBecomesActive ==
    [][ /\ last'.op = "login" =>
             LET request == last'.request
                 out == last'.out
                 user == Account(request)
             IN  (PasswordMatches(request) /\ ~Blocked(request)) =>
                   /\ (user.status = "pending" /\ user.email_verified) =>
                         /\ out.exc = "" /\ out.response # Null
                         /\ out.response.user.status = "active"
                         /\ users_by_id'[user.id].status = "active"
                         /\ users_by_id'[users_by_email'[user.email]].status = "active"
                   /\ user.status = "active" =>
                         /\ out.exc = "" /\ out.response # Null
                         /\ out.path = "active_ok"
                         /\ users_by_id'[user.id].status = "active"
        /\ \A id \in DOMAIN users_by_id :
             users_by_id[id].status = "active" =>
                 /\ id \in DOMAIN users_by_id'
                 /\ users_by_id'[id].status \in {"active", "suspended"}
      ]_vars

\* C7 witness: a registered user, active in the directory since an earlier
\* login moved the account out of pending, has just logged in through the
\* active path
C7_Witness ==
    /\ last.op = "login"
    /\ last.out.exc = "" /\ last.out.path = "active_ok"
    /\ last.out.response.user.id \in UserIds
    /\ users_by_id[last.out.response.user.id].status = "active"

\* whether calls names a collaborator call
Calls(calls, c) == \E i \in DOMAIN calls : calls[i] = c

\* C8: login makes its checks in the order email format, guard block,
\* directory lookup, password verification, account status, token issue, and
\* stops at the first that fails.  A malformed email fails before anything is
\* called; a blocked email raises LoginError after the guard was asked and
\* nothing else, whatever the password and whether or not the email has an
\* account; an unknown email fails before any password is verified; a wrong
\* password raises InvalidCredentialsError whatever the account's status, a
\* suspended one included; an account not allowed in fails with
\* AccountNotActiveError only after its password verified, and no token is
\* generated; a successful login made its calls in that order.
C8_LoginCheckOrder ==
    [][ last'.op = "login" =>
          LET request == last'.request
              out == last'.out
              user == Account(request)
              asked == IF guardOn THEN <<"is_blocked">> ELSE <<>>
          IN  /\ ~EmailParses(request) =>
                    out.exc = "InvalidCredentialsError" /\ out.calls = <<>>
              /\ Blocked(request) =>
                    /\ out.exc = "LoginError"
                    /\ out.calls = <<"is_blocked">>
                    /\ out.response = Null
              /\ (ReachesLookup(request) /\ user = Null) =>
                    /\ out.exc = "InvalidCredentialsError"
                    /\ SubSeq(out.calls, 1, Len(asked) + 1) = asked \o <<"find_by_email">>
                    /\ ~Calls(out.calls, "verify")
                    /\ ~Calls(out.calls, "generate_tokens")
              /\ (ReachesLookup(request) /\ user # Null /\ ~PasswordMatches(request)) =>
                    /\ out.exc = "InvalidCredentialsError"
                    /\ SubSeq(out.calls, 1, Len(asked) + 2) =
                           asked \o <<"find_by_email", "verify">>
                    /\ ~Calls(out.calls, "generate_tokens")
                    /\ out.response = Null
              /\ (ReachesLookup(request) /\ PasswordMatches(request)) =>
                    IF \/ user.status = "active"
                       \/ user.status = "pending" /\ user.email_verified
                    THEN /\ out.exc = ""
                         /\ SubSeq(out.calls, 1, Len(asked) + 4) =
                                asked \o <<"find_by_email", "verify", "generate_tokens", "save">>
                    ELSE /\ out.exc = "AccountNotActiveError"
                         /\ out.calls = asked \o <<"find_by_email", "verify">>
                         /\ out.response = Null
      ]_vars

\* C8 witness: a login with a wrong password for a suspended account has just
\* raised InvalidCredentialsError
C8_Witness ==
    /\ last.op = "login"
    /\ Account(last.request) # Null
    /\ Account(last.request).status = "suspended"
    /\ ~PasswordMatches(last.request)
    /\ last.out.exc = "InvalidCredentialsError"

\* C9: refresh_token succeeds exactly when the token presented is correctly
\* signed, unexpired and of type "refresh" and the user it names is in the
\* directory with status active; every other call raises LoginError, among
\* them one presenting an access token and one for a user suspended since the
\* token was issued.  A successful call returns an access token and a refresh
\* token both issued now and accepted now; the access token carries the role
\* and the permissions the directory holds for the user now.
C9_RefreshNeedsActiveUser ==
    last.op = "refresh_token" =>
        LET token == last.token
            out == last.out
            valid == SignedUnexpiredOfType(token, "refresh", now)
            user == IF valid THEN find_by_id(token.claims["sub"]) ELSE Null
        IN  /\ (out.exc = "") <=> (valid /\ user # Null /\ user.status = "active")
            /\ out.exc # "" => (out.exc = "LoginError" /\ out.response = Null)
            /\ out.exc = "" =>
                 LET access == verify_token(out.response.access_token, now)
                     refresh == verify_refresh_token(out.response.refresh_token, now)
                 IN  /\ access # Null /\ refresh # Null
                     /\ access.user_id = user.id
                     /\ access.role = user.role
                     /\ access.permissions = user.permissions
                     /\ refresh.user_id = user.id
                     /\ out.response.access_token.claims["iat"] = now
                     /\ out.response.refresh_token.claims["iat"] = now
                     /\ out.response.refresh_token.claims["exp"] = now + RefreshSeconds

\* C9 witness: a refresh has just succeeded for a user whose role was changed
\* after registration, and the new access token carries the changed role
C9_Witness ==
    /\ last.op = "refresh_token"
    /\ last.out.exc = ""
    /\ find_by_id(last.token.claims["sub"]).role = "viewer"
    /\ last.out.response.access_token.claims["role"] = "viewer"

(***************************************************************************)
(* Registration                                                            *)
(***************************************************************************)
\* a request that passes every check made before the directory is consulted
WellFormed(request) ==
    /\ Email(request.email).ok
    /\ request.password = request.password_confirm
    /\ Password(request.password).ok
    /\ RegisterUsernameCheck(request.username) = NoMsg
    /\ RegisterFullNameCheck(request.full_name) = NoMsg

\* some record of the directory has the request's email, or its username up
\* to letter case
EmailTaken(request) ==
    \E id \in DOMAIN users_by_id : users_by_id[id].email = Email(request.email).value

UsernameTaken(request) ==
    \E id \in DOMAIN users_by_id :
        Lower(users_by_id[id].username) = Lower(request.username)

\* C10: whatever registrations succeeded before, a well-formed registration
\* whose email some record already has raises EmailAlreadyExistsError, and one
\* with a new email whose username some record already has, compared without
\* regard to letter case, raises UsernameAlreadyExistsError; neither adds or
\* changes a record, nor does any other registration that fails, and a
\* well-formed one with a new email and a new username adds its record.
C10_DuplicatesRejected ==
    [][ last'.op = "register" =>
          LET request == last'.request
              out == last'.out
          IN  /\ out.exc # "" =>
                    /\ users_by_id' = users_by_id
                    /\ users_by_email' = users_by_email
                    /\ users_by_username' = users_by_username
              /\ WellFormed(request) =>
                    /\ EmailTaken(request) => out.exc = "EmailAlreadyExistsError"
                    /\ (~EmailTaken(request) /\ UsernameTaken(request)) =>
                           out.exc = "UsernameAlreadyExistsError"
                    /\ (~EmailTaken(request) /\ ~UsernameTaken(request)) =>
                           /\ out.exc = ""
                           /\ Cardinality(DOMAIN users_by_id') =
                                  Cardinality(DOMAIN users_by_id) + 1
      ]_vars

\* C10 witness: after a registration as "alice" succeeded, one as "Alice" with
\* another email has just raised UsernameAlreadyExistsError
C10_Witness ==
    /\ last.op = "register"
    /\ last.request.username = UsernameAliceCaps
    /\ last.out.exc = "UsernameAlreadyExistsError"
    /\ \E id \in UserIds \cap DOMAIN users_by_id :
           users_by_id[id].username = UsernameAlice

\* C11: register reports the first check that fails, in the order email
\* format, password confirmation, password policy, username, full name, email
\* uniqueness, username uniqueness, whatever later checks would also fail:
\* mismatching passwords with an invalid username give PasswordMismatchError,
\* a taken email with a taken username gives EmailAlreadyExistsError.  The
\* directory is asked nothing unless every format check passed, and about
\* the username only when the email is new.
C11_RegisterCheckOrder ==
    [][ last'.op = "register" =>
          LET request == last'.request
              out == last'.out
              email == Email(request.email)
              confirmed == request.password = request.password_confirm
              password == Password(request.password)
              username_ok == RegisterUsernameCheck(request.username) = NoMsg
              full_name_ok == RegisterFullNameCheck(request.full_name) = NoMsg
          IN  /\ ~email.ok =>
                    /\ out.exc = "RegisterError"
                    /\ out.msg = Wrap("Invalid email: ", email.err)
              /\ (email.ok /\ ~confirmed) => out.exc = "PasswordMismatchError"
              /\ (email.ok /\ confirmed /\ ~password.ok) =>
                    /\ out.exc = "RegisterError"
                    /\ out.msg = Wrap("Invalid password: ", password.err)
              /\ (email.ok /\ confirmed /\ password.ok /\ ~username_ok) =>
                    /\ out.exc = "RegisterError"
                    /\ out.msg = RegisterUsernameCheck(request.username)
              /\ (email.ok /\ confirmed /\ password.ok /\ username_ok /\ ~full_name_ok) =>
                    /\ out.exc = "RegisterError"
                    /\ out.msg = RegisterFullNameCheck(request.full_name)
              /\ ~WellFormed(request) => out.calls = <<>>
              /\ (WellFormed(request) /\ EmailTaken(request)) =>
                    /\ out.exc = "EmailAlreadyExistsError"
                    /\ out.calls = <<"exists_by_email">>
              /\ (WellFormed(request) /\ ~EmailTaken(request) /\ UsernameTaken(request)) =>
                    /\ out.exc = "UsernameAlreadyExistsError"
                    /\ out.calls = <<"exists_by_email", "exists_by_username">>
      ]_vars

\* C11 witness: a registration with mismatching passwords and a username that
\* is too short has just raised PasswordMismatchError
C11_Witness ==
    /\ last.op = "register"
    /\ Email(last.request.email).ok
    /\ last.request.password # last.request.password_confirm
    /\ RegisterUsernameCheck(last.request.username) # NoMsg
    /\ last.out.exc = "PasswordMismatchError"

\* the permission list the spec gives role user
DefaultUserPermissions ==
    <<"read:public", "read:profile", "read:documents", "write:documents",
      "read:analytics", "use:chat">>

\* C12: every registration that succeeds with the default role stores a user
\* with status pending, role user and the default permission list of role
\* user.  A login with the registered password (one the attempts guard does
\* not turn away) raises AccountNotActiveError and changes nothing while the
\* email is not verified; once email_verified is true it succeeds, the stored
\* status is active afterwards, and the access token carries role "user" and
\* the default permission list of role user.
C12_RegisterVerifyLogin ==
    [][ /\ (last'.op = "register" /\ last'.out.exc = "") =>
              LET user == users_by_id'[last'.out.saved.id] IN
              /\ last'.out.saved.id \notin DOMAIN users_by_id
              /\ user.status = "pending"
              /\ ~user.email_verified
              /\ user.role = "user"
              /\ user.permissions = DefaultUserPermissions
              /\ users_by_email'[user.email] = user.id
        /\ last'.op = "login" =>
              LET request == last'.request
                  out == last'.out
                  user == Account(request)
              IN  (PasswordMatches(request) /\ ~Blocked(request) /\ user.id \in UserIds) =>
                    IF user.email_verified
                    THEN /\ out.exc = ""
                         /\ users_by_id'[user.id].status = "active"
                         /\ out.response.access_token.claims["role"] = "user"
                         /\ out.response.access_token.claims["permissions"] =
                                DefaultUserPermissions
                         /\ verify_token(out.response.access_token, now) # Null
                    ELSE /\ user.status = "pending"
                         /\ out.exc = "AccountNotActiveError"
                         /\ out.response = Null
                         /\ users_by_id' = users_by_id
      ]_vars

\* C12 witness: a registered user, still pending and with the email verified,
\* has just logged in with the registered password and is active
C12_Witness ==
    /\ last.op = "login"
    /\ last.out.exc = ""
    /\ last.out.path = "pending_verified_auto_activate"
    /\ last.out.response.user.id \in UserIds
    /\ users_by_id[last.out.response.user.id].status = "active"
    /\ last.out.response.access_token.claims["role"] = "user"

\* the registration the spec gives as its example
ExampleRegisterRequest ==
    RegisterRequest(EmailA, UsernameAlice, FullNameAlice, PasswordExample, PasswordExample)

\* C13: the registration of the spec's example input (a@b.com, alice,
\* Alice A, password and confirmation Abc12345!) on a directory in which
\* nobody has registered passes every validation step and succeeds, with the
\* user stored in status pending.
C13_ExampleRegistrationSucceeds ==
    LET out == last.out
        others == { id \in DOMAIN users_by_id :
                      id # AdminId /\ ~(out.exc = "" /\ out.saved.id = id) }
    IN  (last.op = "register" /\ last.request = ExampleRegisterRequest /\ others = {}) =>
            /\ out.exc = ""
            /\ users_by_id[out.saved.id].status = "pending"

(***************************************************************************)
(* Aggregate, entity, permissions                                          *)
(***************************************************************************)
\* C14: a call of the aggregate's update_role by an actor allowed to manage
\* the user (an active admin other than the user) returns normally, leaves
\* the user with the new role and with exactly the default permissions of
\* the new role, no earlier grant among them, and leaves every session the
\* aggregate had before the call invalid.
C14_RoleChangeResetsPermissionsAndSessions ==
    ( /\ last.op = "aggregate_update_role"
      /\ User_can_manage_user(last.actor, last.before.user)
      /\ last.actor.id # last.before.user.id ) =>
        /\ last.exc = ""
        /\ aggregate.user.role = last.new_role
        /\ Names(aggregate.permissions) = Names(get_default_permissions(last.new_role))
        /\ \A i \in DOMAIN last.before.sessions :
               ~Session_is_valid(aggregate.sessions[i], now)

\* C15: the role and the permission list of a user change only through
\* update_role, add_permission or remove_permission called by an actor who
\* is an admin with status active and, for a role change, is not the user;
\* every other call of the three (by a non-admin, by a suspended or pending
\* actor, by the user on their own role) raises PermissionError or
\* ValueError and leaves role and permission list as they were.
C15_OnlyActiveAdminsChangeRoleOrPermissions ==
    last.op \in {"update_role", "add_permission", "remove_permission", "suspend"} =>
        LET authorized ==
                /\ last.op # "suspend"
                /\ last.actor.role = "admin"
                /\ last.actor.status = "active"
                /\ last.op = "update_role" => last.actor.id # last.before.id
            changed ==
                \/ aggregate.user.role # last.before.role
                \/ aggregate.user.permissions # last.before.permissions
        IN  /\ changed => authorized
            /\ (last.op # "suspend" /\ ~authorized) =>
                   last.exc \in {"PermissionError", "ValueError"}

\* the permissions the spec gives the roles below admin
SpecDefaultPermissions ==
    [guest |-> {"read:public", "read:profile"},
     viewer |-> {"read:public", "read:profile", "read:documents", "read:analytics"},
     user |-> {"read:public", "read:profile", "read:documents", "write:documents",
               "use:chat", "read:analytics"}]

\* C16: the default permissions are defined for each of the roles admin,
\* user, viewer and guest: guest has public and profile read only, viewer
\* adds read of documents and analytics, user adds read and write of
\* documents, chat use and read of analytics, admin has the full set.  The
\* mapping of User.create and the mapping the aggregate applies give the
\* same set for every role, admin included, and an aggregate that has
\* registered its user holds the permissions its user holds.
C16_DefaultPermissionsPerRole ==
    /\ \A role \in Roles :
          /\ Range(Names(get_default_permissions(role))) =
                 Range(User_get_default_permissions(role))
          /\ role # "admin" =>
                 Range(User_get_default_permissions(role)) = SpecDefaultPermissions[role]
    /\ (aggregate # Null /\ last.op = "register_user") =>
          Range(Names(aggregate.permissions)) = Range(aggregate.user.permissions)

\* C17: a request that presents a verified token is admitted by
\* require_roles exactly when the role in the token's claims is one of the
\* required roles, and by require_permissions exactly when the role in the
\* claims is admin or the permission list in the claims holds every required
\* permission.
C17_EnforcementDecidesFromClaims ==
    ( /\ last.op = "request"
      /\ last.authorization # Null
      /\ last.authorization.scheme = "Bearer"
      /\ verify_token(last.authorization.token, now) # Null ) =>
        LET claims == verify_token(last.authorization.token, now)
            admitted == ~IsHTTPException(last.result)
        IN  /\ last.kind = "roles" => (admitted <=> claims.role \in last.required)
            /\ last.kind = "permissions" =>
                 (admitted <=> \/ claims.role = "admin"
                               \/ last.required \subseteq Range(claims.permissions))

(***************************************************************************)
(* Concurrency                                                             *)
(***************************************************************************)
\* C18: with a guard whose is_blocked and record_failed_attempt are atomic
\* and which blocks an email once AttemptsLimit failures are recorded, under
\* every interleaving of concurrent wrong-password logins for the email at
\* most AttemptsLimit of them reach the password verification.
C18_NoRacePastThreshold ==
    Cardinality({ c \in DOMAIN in_flight : in_flight[c].verified }) <= AttemptsLimit

(***************************************************************************)
(* Validity of permissions and sessions                                    *)
(***************************************************************************)
\* C19: at every instant each permission of the aggregate is valid exactly
\* when it is active and either has no expiry or the instant is strictly
\* before its expiry, and each session is valid exactly when it is active
\* and the instant is strictly before its expiry; at the instant of the
\* expiry itself both are invalid.  A permission that is expired but active
\* is still in the aggregate's list, only not counted by has_permission.
C19_ValidStrictlyBeforeExpiry ==
    aggregate # Null =>
        /\ \A i \in DOMAIN aggregate.permissions :
              LET q == aggregate.permissions[i] IN
              /\ Permission_is_valid(q, now) <=>
                     (q.is_active /\ (q.expires_at = NoTime \/ now < q.expires_at))
              /\ (q.is_active /\ q.expires_at # NoTime /\ now >= q.expires_at) =>
                     ~UserAggregate_has_permission(aggregate, q.name, now)
        /\ \A i \in DOMAIN aggregate.sessions :
              LET x == aggregate.sessions[i] IN
              Session_is_valid(x, now) <=> (x.is_active /\ now < x.expires_at)

(***************************************************************************)
(* Guard calls of login                                                    *)
(***************************************************************************)
\* how many times calls names a collaborator call
Count(calls, c) == Cardinality({ i \in DOMAIN calls : calls[i] = c })

GuardOperations == {"is_blocked", "record_failed_attempt", "clear_attempts"}

\* C20: a login calls record_failed_attempt once when it reached the lookup
\* and the email is unknown or the password wrong, and in no other outcome;
\* it calls clear_attempts only when it succeeds, once, as its last call and
\* after the save.  The counter of the email goes up by one in the first
\* case, is removed in the second, and is untouched otherwise: a login with
\* the correct password that is rejected for the account's status neither
\* increments nor clears it.  Without a guard no guard call is made.
C20_GuardCalls ==
    [][ last'.op = "login" =>
          LET request == last'.request
              out == last'.out
              n == Len(out.calls)
              failing == /\ guardOn /\ ReachesLookup(request)
                         /\ (Account(request) = Null \/ ~PasswordMatches(request))
              email_value == Email(request.email).value
          IN  /\ Count(out.calls, "record_failed_attempt") = (IF failing THEN 1 ELSE 0)
              /\ failing =>
                    attempts' = Update(attempts,
                                       [k \in {email_value} |-> Get(attempts, email_value, 0) + 1])
              /\ Count(out.calls, "clear_attempts") =
                    (IF guardOn /\ out.exc = "" THEN 1 ELSE 0)
              /\ (guardOn /\ out.exc = "") =>
                    /\ out.calls[n] = "clear_attempts"
                    /\ out.calls[n - 1] = "save"
                    /\ email_value \notin DOMAIN attempts'
                    /\ \A k \in DOMAIN attempts \ {email_value} :
                          k \in DOMAIN attempts' /\ attempts'[k] = attempts[k]
              /\ (~failing /\ out.exc # "") => attempts' = attempts
              /\ ~guardOn =>
                    /\ \A i \in DOMAIN out.calls : out.calls[i] \notin GuardOperations
                    /\ attempts' = attempts
      ]_vars

\* C20 witness: with a guard configured and a failure already recorded for
\* the email, a login with the correct password has just been rejected for
\* the account's status, and the recorded failure is still there
C20_Witness ==
    /\ last.op = "login"
    /\ guardOn
    /\ PasswordMatches(last.request)
    /\ last.out.exc = "AccountNotActiveError"
    /\ Get(attempts, Email(last.request.email).value, 0) > 0
(***************************************************************************)
(* Lifecycle of the status                                                 *)
(***************************************************************************)
\* C21: every change of a stored user's status is pending -> active, made by
\* verify_email or by a login, or active -> suspended, made by suspend for an
\* actor with manage rights; so a suspended user stays suspended, and
\* suspend changes the status of active users only.
C21_StatusFollowsLifecycle ==
    [][ \A id \in DOMAIN users_by_id :
          LET before == users_by_id[id].status
              after == users_by_id'[id].status
          IN  after # before =>
                \/ /\ before = "pending" /\ after = "active"
                   /\ last'.op \in {"verify_email", "login"}
                \/ /\ before = "active" /\ after = "suspended"
                   /\ last'.op = "suspend"
                   /\ User_can_manage_user(users_by_id[last'.actor], users_by_id[id])
      ]_vars

(***************************************************************************)
(* Suspension of the aggregate                                             *)
(***************************************************************************)
\* C22: suspend_account, given an actor who may manage the user and is not
\* the user, or given no actor at all, leaves the user suspended and every
\* session inactive; given the user itself as the actor it raises and the
\* status stays as it was.
C22_SuspendAccountSuspends ==
    [][ last'.op = "suspend_account" =>
          LET before == last'.before
              actor == last'.actor
              authorized == /\ actor # Null
                            /\ User_can_manage_user(actor, before.user)
                            /\ actor.id # before.user.id
          IN  /\ (actor = Null \/ authorized) =>
                    /\ last'.exc = ""
                    /\ aggregate'.user.status = "suspended"
                    /\ \A i \in DOMAIN aggregate'.sessions : ~aggregate'.sessions[i].is_active
              /\ (actor # Null /\ actor.id = before.user.id) =>
                    /\ last'.exc # ""
                    /\ aggregate'.user.status = before.user.status
      ]_vars

(***************************************************************************)
(* Matching of permissions                                                 *)
(***************************************************************************)
\* C23: Permission.matches answers true exactly when the permission is valid,
\* its name, type and scope are the required ones, and either no resource is
\* required or the permission's resource is the required one; so a
\* permission without a resource does not match where one is required.
C23_MatchesExactly ==
    last.op = "matches" =>
        LET p == last.permission IN
        last.result = (/\ Permission_is_valid(p, now)
                       /\ p.name = last.name /\ p.type = last.type /\ p.scope = last.scope
                       /\ (last.resource = NoResource \/ p.resource = last.resource))

(***************************************************************************)
(* Expiry as reported                                                      *)
(***************************************************************************)
\* C24: for every configured lifetime of m minutes, a successful login's
\* token data has expires_in = m * 60 and expires_at = the time of issue plus
\* m minutes, which is the access token's exp claim, and the endpoint's
\* response reports that expires_in.
C24_ExpiresInAsConfigured ==
    (last.op = "login_user" /\ last.out.exc = "") =>
        LET token_data == last.out.token_data IN
        /\ token_data["expires_in"] = last.minutes * 60
        /\ token_data["expires_at"] = now + last.minutes * 60
        /\ token_data["expires_at"] = token_data["access_token"].claims["exp"]
        /\ last.response.expires_in = token_data["expires_in"]

(***************************************************************************)
(* Concurrent registrations                                                *)
(***************************************************************************)
\* C25: however concurrent registrations interleave, no two stored users
\* have the same email or the same username, and of two finished calls for
\* one email at most one returned, the other having raised
\* EmailAlreadyExistsError.
C25_ConcurrentRegistrationsStayUnique ==
    /\ \A i \in DOMAIN users_by_id : \A j \in DOMAIN users_by_id \ {i} :
          /\ users_by_id[i].email # users_by_id[j].email
          /\ users_by_id[i].username # users_by_id[j].username
    /\ \A c \in DOMAIN in_flight : \A d \in DOMAIN in_flight \ {c} :
          (/\ in_flight[c].pc = "done" /\ in_flight[d].pc = "done"
           /\ in_flight[c].exc = ""
           /\ Email(in_flight[c].request.email).ok
           /\ Email(in_flight[d].request.email).ok
           /\ Email(in_flight[c].request.email).value = Email(in_flight[d].request.email).value
           /\ RegisterUseCase_execute(in_flight[d].request, "u1").path \notin FormatPaths)
          => in_flight[d].exc = "EmailAlreadyExistsError"

(***************************************************************************)
(* A login in flight                                                       *)
(***************************************************************************)
\* C26: the save of a login in flight leaves the stored status suspended
\* where a suspension was written since the login loaded the user, and
\* leaves the stored role as a role change wrote it.
C26_LoginSaveKeepsSuspensionAndRole ==
    [][ last'.op = "login_save" =>
          LET id == last'.user_id IN
          /\ users_by_id[id].status = "suspended" => users_by_id'[id].status = "suspended"
          /\ users_by_id'[id].role = users_by_id[id].role
      ]_vars

(***************************************************************************)
(* Additional claims                                                       *)
(***************************************************************************)
\* C27: whatever additional claims generate_tokens is given, the access
\* token it issues carries type "access" and the subject, email, role,
\* permissions and expiry computed from the call's own arguments, so that
\* verify_token accepts it and verify_refresh_token rejects it.
C27_AdditionalClaimsLeaveReservedClaims ==
    last.op = "generate_tokens" =>
        LET access_token == last.result["access_token"]
            claims == access_token.claims
        IN  /\ claims["type"] = "access"
            /\ claims["sub"] = last.args.user_id
            /\ claims["email"] = last.args.email
            /\ claims["role"] = last.args.role
            /\ claims["permissions"] = last.args.permissions
            /\ claims["exp"] = now + AccessSeconds
            /\ verify_token(access_token, now) # Null
            /\ verify_refresh_token(access_token, now) = Null

(***************************************************************************)
(* Authentication of requests                                              *)
(***************************************************************************)
\* C28: LoginUseCase.validate_token and get_current_user give a user only
\* for a correctly signed, unexpired access token whose subject is stored
\* with status active; a token of a user suspended since it was issued is
\* turned down by both.
C28_AuthenticatedOnlyWhileActive ==
    last.op = "authenticate" =>
        LET stored == IF SignedUnexpiredOfType(last.token, "access", now)
                      THEN find_by_id(Get(last.token.claims, "sub", ""))
                      ELSE Null
            active == stored # Null /\ stored.status = "active"
        IN  /\ (last.validated # Null) => active
            /\ ~IsHTTPException(last.current_user) => active

\* the user a token was issued for, as stored when the operation returned
IssuedFor(out) ==
    IF last.op = "login_user" THEN out.saved.user
    ELSE find_by_id(out.token_data["access_token"].claims["sub"])

\* C29: every token pair a use case issues (LoginUseCase.execute,
\* LoginUseCase.refresh_token, AzureADLoginUseCase.execute,
\* LoginUserUseCase.execute) is issued for a user whose status is active at
\* the moment of issue.
C29_TokensIssuedForActiveUsersOnly ==
    (/\ last.op \in {"login", "refresh_token", "azure_ad_login", "login_user"}
     /\ last.out.token_data # Null)
        => /\ IssuedFor(last.out) # Null
           /\ IssuedFor(last.out).status = "active"

\* the user a token names is stored and active
UserOfTokenActive(token) ==
    LET user == find_by_id(Get(token.claims, "sub", "")) IN
    user # Null /\ user.status = "active"

====
